---- MODULE Spec2Model ----
(***************************************************************************)
(* A model of agent_link: the A2A envelope model (agent_link/a2a.py) and   *)
(* the node's join/leave/send operations and inbound dispatch              *)
(* (agent_link/node.py).                                                   *)
(*                                                                         *)
(* Python values are dynamically typed, so every value is a tagged record *)
(* [t |-> <type>, v |-> <content>]: JSON trees (null, str, num, bool,      *)
(* list, map) and the dataclass instances of a2a.py (Part, A2AMessage,     *)
(* Config, Params, Request, Envelope).  None and JSON null are both Null.  *)
(***************************************************************************)
EXTENDS Integers, Sequences, FiniteSets, TLC

VARIABLES joined, subs, handlers, net, d, last, cfg

vars == <<joined, subs, handlers, net, d, last, cfg>>

(***************************************************************************)
(* Values                                                                  *)
(***************************************************************************)
Null == [t |-> "null", v |-> "None"]
Str(s) == [t |-> "str", v |-> s]
Num(n) == [t |-> "num", v |-> n]
Bool(b) == [t |-> "bool", v |-> b]
List(s) == [t |-> "list", v |-> s]
Map(f) == [t |-> "map", v |-> f]
Obj(cls, fields) == [t |-> cls, v |-> fields]
\* a raised exception, as the result of an operator that models a raising function
Err(name) == [t |-> "error", v |-> name]

EmptyFcn == [k \in {} |-> Null]
EmptyMap == Map(EmptyFcn)

IsNone(x) == x.t = "null"
IsStr(x) == x.t = "str"
IsDict(x) == x.t = "map"
IsList(x) == x.t = "list"
IsBool(x) == x.t = "bool"
\* isinstance(x, int): bool is a subclass of int
IsInt(x) == x.t \in {"num", "bool"}
IsErr(x) == x.t = "error"

\* Python truth value: None, "", 0, False, {} and [] are false; instances of
\* the dataclasses (no __bool__, no __len__) are true.
Truthy(x) ==
    CASE x.t = "null" -> FALSE
      [] x.t = "str" -> x.v # ""
      [] x.t = "num" -> x.v # 0
      [] x.t = "bool" -> x.v
      [] x.t = "list" -> Len(x.v) > 0
      [] x.t = "map" -> DOMAIN x.v # {}
      [] OTHER -> TRUE

\* x or y
PyOr(x, y) == IF Truthy(x) THEN x ELSE y

\* dict.get(key), with the default None
Get(m, k) == IF k \in DOMAIN m.v THEN m.v[k] ELSE Null

\* d[key] = value
Put(m, k, x) == Map((k :> x) @@ m.v)

\* "if cond: d[key] = value"
PutIf(cond, m, k, x) == IF cond THEN Put(m, k, x) ELSE m

\* a slip: the except clause is missing
OrNone_uncaught(x) == x

\* "try: return x  except ValueError: return None"
OrNone(x) == IF IsErr(x) THEN Null ELSE x

\* str(x) as an f-string formats it (ids in topics)
PyStr(x) ==
    CASE x.t = "str" -> x.v
      [] x.t = "null" -> "None"
      [] OTHER -> "?"

\* the strings of the model that str.strip() reduces to ""
Blank == {"", " ", "  "}

(***************************************************************************)
(* agent_link/a2a.py                                                       *)
(***************************************************************************)
JSONRPC_VERSION == Str("2.0")

Part(kind, data, metadata) ==
    Obj("Part", [kind |-> kind, data |-> data, metadata |-> metadata])

A2APart_to_dict(p) ==
    PutIf(Truthy(p.v.metadata), Map(p.v.data.v @@ ("kind" :> p.v.kind)),
          "metadata", p.v.metadata)

A2APart_from_dict(value) ==
    IF ~IsDict(value) THEN Err("ValueError")
    ELSE IF ~IsStr(Get(value, "kind")) THEN Err("ValueError")
    ELSE Part(Get(value, "kind"),
              Map([k \in DOMAIN value.v \ {"kind", "metadata"} |-> value.v[k]]),
              IF IsDict(Get(value, "metadata")) THEN Get(value, "metadata") ELSE Null)

A2APart_text(p) ==
    IF IsStr(Get(p.v.data, "text")) THEN Get(p.v.data, "text") ELSE Null

create_text_part(text) == Part(Str("text"), Map([text |-> text]), Null)

A2AMessage(role, parts, message_id, kind, metadata, extensions, reference_task_ids, task_id, context_id) ==
    Obj("A2AMessage",
        [role |-> role, parts |-> parts, message_id |-> message_id, kind |-> kind,
         metadata |-> metadata, extensions |-> extensions,
         reference_task_ids |-> reference_task_ids, task_id |-> task_id,
         context_id |-> context_id])

A2AMessage_to_dict(m) ==
    LET p0 == Map([role |-> m.v.role,
                   parts |-> List([i \in 1..Len(m.v.parts.v) |->
                                      A2APart_to_dict(m.v.parts.v[i])]),
                   messageId |-> m.v.message_id,
                   kind |-> m.v.kind])
        p1 == PutIf(Truthy(m.v.metadata), p0, "metadata", m.v.metadata)
        p2 == PutIf(Truthy(m.v.extensions), p1, "extensions", m.v.extensions)
        p3 == PutIf(Truthy(m.v.reference_task_ids), p2,
                    "referenceTaskIds", m.v.reference_task_ids)
        p4 == PutIf(Truthy(m.v.task_id), p3, "taskId", m.v.task_id)
    IN PutIf(Truthy(m.v.context_id), p4, "contextId", m.v.context_id)

A2AMessage_from_dict(value) ==
    IF ~IsDict(value) THEN Err("ValueError")
    ELSE IF Get(value, "role") \notin {Str("user"), Str("agent")} THEN Err("ValueError")
    ELSE IF ~IsList(Get(value, "parts")) \/ ~Truthy(Get(value, "parts"))
    THEN Err("ValueError")
    ELSE
      LET pv == Get(value, "parts").v
          parts == [i \in 1..Len(pv) |-> A2APart_from_dict(pv[i])]
          message_id == PyOr(Get(value, "messageId"), Get(value, "message_id"))
          extensions == IF IsList(Get(value, "extensions"))
                        THEN Get(value, "extensions") ELSE Null
          reference_task_ids == IF IsList(Get(value, "referenceTaskIds"))
                                THEN Get(value, "referenceTaskIds") ELSE Null
          task_id == PyOr(Get(value, "taskId"), Get(value, "task_id"))
          context_id == PyOr(Get(value, "contextId"), Get(value, "context_id"))
      IN IF \E i \in 1..Len(pv) : IsErr(parts[i]) THEN Err("ValueError")
         ELSE IF ~IsStr(message_id) THEN Err("ValueError")
         ELSE A2AMessage(
                Get(value, "role"),
                List(parts),
                message_id,
                IF "kind" \in DOMAIN value.v THEN value.v["kind"] ELSE Str("message"),
                IF IsDict(Get(value, "metadata")) THEN Get(value, "metadata") ELSE Null,
                IF Truthy(extensions) THEN extensions ELSE Null,
                IF Truthy(reference_task_ids) THEN reference_task_ids ELSE Null,
                IF IsStr(task_id) THEN task_id ELSE Null,
                IF IsStr(context_id) THEN context_id ELSE Null)

\* the text of the first part that has one
A2AMessage_primary_text(m) ==
    LET ps == m.v.parts.v
        has == {i \in 1..Len(ps) : ~IsNone(A2APart_text(ps[i]))}
    IN IF has = {} THEN Null
       ELSE A2APart_text(ps[CHOOSE i \in has : \A j \in has : i <= j])

\* dataclasses.replace(self, **updates), for one updated field
A2AMessage_with_updates(m, fld, x) ==
    Obj("A2AMessage", [m.v EXCEPT ![fld] = x])

MessageSendConfiguration(accepted_output_modes, history_length, push_notification_config, blocking) ==
    Obj("Config", [accepted_output_modes |-> accepted_output_modes,
                   history_length |-> history_length,
                   push_notification_config |-> push_notification_config,
                   blocking |-> blocking])

MessageSendConfiguration_to_dict(c) ==
    LET p0 == EmptyMap
        p1 == PutIf(Truthy(c.v.accepted_output_modes), p0,
                    "acceptedOutputModes", c.v.accepted_output_modes)
        p2 == PutIf(~IsNone(c.v.history_length), p1, "historyLength", c.v.history_length)
        p3 == PutIf(Truthy(c.v.push_notification_config), p2,
                    "pushNotificationConfig", c.v.push_notification_config)
    IN PutIf(~IsNone(c.v.blocking), p3, "blocking", c.v.blocking)

MessageSendConfiguration_from_dict(value) ==
    IF ~IsDict(value) THEN Err("ValueError")
    ELSE IF ~IsNone(Get(value, "historyLength")) /\ ~IsInt(Get(value, "historyLength"))
    THEN Err("ValueError")
    ELSE IF ~IsNone(Get(value, "blocking")) /\ ~IsBool(Get(value, "blocking"))
    THEN Err("ValueError")
    ELSE MessageSendConfiguration(
           IF IsList(Get(value, "acceptedOutputModes"))
           THEN Get(value, "acceptedOutputModes") ELSE Null,
           Get(value, "historyLength"),
           IF IsDict(Get(value, "pushNotificationConfig"))
           THEN Get(value, "pushNotificationConfig") ELSE Null,
           Get(value, "blocking"))

MessageSendParams(message, configuration, metadata) ==
    Obj("Params", [message |-> message, configuration |-> configuration,
                   metadata |-> metadata])

MessageSendParams_to_dict(p) ==
    LET p0 == Map([message |-> A2AMessage_to_dict(p.v.message)])
        p1 == PutIf(Truthy(p.v.configuration), p0,
                    "configuration", MessageSendConfiguration_to_dict(p.v.configuration))
    IN PutIf(Truthy(p.v.metadata), p1, "metadata", p.v.metadata)

MessageSendParams_from_dict(value) ==
    IF ~IsDict(value) THEN Err("ValueError")
    ELSE IF ~IsDict(Get(value, "message")) THEN Err("ValueError")
    ELSE
      LET Built(message, configuration) ==
            IF IsErr(message) THEN message
            ELSE IF IsErr(configuration) THEN configuration
            ELSE MessageSendParams(
                   message, configuration,
                   IF IsDict(Get(value, "metadata")) THEN Get(value, "metadata") ELSE Null)
      IN Built(A2AMessage_from_dict(Get(value, "message")),
               IF IsDict(Get(value, "configuration"))
               THEN MessageSendConfiguration_from_dict(Get(value, "configuration"))
               ELSE Null)

\* a slip in the request's method name
SendMessageRequest_stream(id, params) ==
    Obj("Request", [id |-> id, params |-> params, method |-> Str("message/stream"),
                    jsonrpc |-> JSONRPC_VERSION])

SendMessageRequest(id, params) ==
    Obj("Request", [id |-> id, params |-> params, method |-> Str("message/send"),
                    jsonrpc |-> JSONRPC_VERSION])

SendMessageRequest_to_dict(r) ==
    Map([jsonrpc |-> r.v.jsonrpc, id |-> r.v.id, method |-> r.v.method,
         params |-> MessageSendParams_to_dict(r.v.params)])

A2AEnvelope(jsonrpc, id, method, params, result, error, raw) ==
    Obj("Envelope", [jsonrpc |-> jsonrpc, id |-> id, method |-> method,
                     params |-> params, result |-> result, error |-> error,
                     raw |-> raw])

A2AEnvelope_message(e) ==
    IF Truthy(e.v.params) THEN e.v.params.v.message
    ELSE IF IsDict(e.v.result)
    THEN OrNone(A2AMessage_from_dict(e.v.result))
    ELSE Null

A2AEnvelope_to_dict(e) ==
    LET p0 == Map([jsonrpc |-> e.v.jsonrpc])
        p1 == PutIf(~IsNone(e.v.id), p0, "id", e.v.id)
        p2 == PutIf(Truthy(e.v.method), p1, "method", e.v.method)
        p3 == PutIf(Truthy(e.v.params), p2, "params", MessageSendParams_to_dict(e.v.params))
        p4 == PutIf(~IsNone(e.v.result), p3, "result", e.v.result)
    IN PutIf(~IsNone(e.v.error), p4, "error", e.v.error)

A2AEnvelope_from_dict(value) ==
    IF ~IsDict(value) THEN Err("ValueError")
    ELSE IF Get(value, "jsonrpc") # JSONRPC_VERSION THEN Err("ValueError")
    ELSE
      LET parsed == IF IsDict(Get(value, "params"))
                    THEN OrNone(MessageSendParams_from_dict(Get(value, "params")))
                    ELSE Null
      IN A2AEnvelope(Get(value, "jsonrpc"), Get(value, "id"), Get(value, "method"),
                     parsed,
                     Get(value, "result"),
                     IF IsDict(Get(value, "error")) THEN Get(value, "error") ELSE Null,
                     value)

\* uuid stands for the str(uuid.uuid4()) drawn by the call
create_text_message(text, role, message_id, metadata, uuid) ==
    A2AMessage(role, List(<<create_text_part(text)>>), PyOr(message_id, uuid),
               Str("message"), metadata, Null, Null, Null, Null)

create_send_message_request(message, request_id, configuration, metadata, uuid) ==
    SendMessageRequest(PyOr(request_id, uuid),
                       MessageSendParams(message, configuration, metadata))

\* a slip in the discriminator: only requests count as envelopes
is_a2a_envelope_request(payload) ==
    IF ~IsDict(payload) THEN FALSE
    ELSE Get(payload, "jsonrpc") = JSONRPC_VERSION /\ "method" \in DOMAIN payload.v

is_a2a_envelope(payload) ==
    IF ~IsDict(payload) THEN FALSE
    ELSE Get(payload, "jsonrpc") = JSONRPC_VERSION

parse_a2a_envelope(payload) ==
    IF ~is_a2a_envelope(payload) THEN Null
    ELSE OrNone(A2AEnvelope_from_dict(payload))

\* a slip in the order of the keys: the camelCase key first
SenderKeys_camel == <<"senderId", "sender_id", "agent_id", "agentId", "authorId", "author_id">>

SenderKeys == <<"sender_id", "senderId", "agent_id", "agentId", "authorId", "author_id">>

derive_sender_id_from_message(message) ==
    LET metadata == PyOr(message.v.metadata, EmptyMap)
        hit == {i \in 1..Len(SenderKeys) :
                   /\ IsStr(Get(metadata, SenderKeys[i]))
                   /\ Get(metadata, SenderKeys[i]).v \notin Blank}
    IN IF hit # {}
       THEN Get(metadata, SenderKeys[CHOOSE i \in hit : \A j \in hit : i <= j])
       ELSE IF Truthy(message.v.context_id) THEN message.v.context_id
       ELSE IF Truthy(message.v.task_id) THEN message.v.task_id
       ELSE Str("a2a:" \o message.v.role.v)

(***************************************************************************)
(* agent_link/node.py                                                      *)
(***************************************************************************)
\* AgentNode.__init__: the ids of the node under study.  A topic is the
\* sequence of its "/"-separated segments.
room_id == "room"
agent_id == Str("agent")
qos == "AT_LEAST_ONCE"

group_topic == <<"rooms", room_id, "group">>
DirectTopicOf(id) == <<"rooms", room_id, "direct", PyStr(id)>>
direct_topic == DirectTopicOf(agent_id)

\* a slip in the prefix: the room is not compared
IsDirectTopic_anyroom(topic) ==
    Len(topic) >= 4 /\ topic[1] = "rooms" /\ topic[3] = "direct"

\* topic.startswith(f"rooms/{self.room_id}/direct/")
IsDirectTopic(topic) ==
    Len(topic) >= 4 /\ SubSeq(topic, 1, 3) = <<"rooms", room_id, "direct">>

\* class Audience(Enum), Audience(value) and Audience.value
AudienceValues == {"everyone", "direct"}
AudienceOf(value) == IF value = "everyone" THEN "EVERYONE" ELSE "DIRECT"
AudienceValue(audience) == IF audience = "EVERYONE" THEN "everyone" ELSE "direct"

\* the time.time() of the model's clock
Now == Str("now")

Message(sender_id, content, timestamp, message_id, in_reply_to, audience, recipient_id, raw_payload, a2a_envelope) ==
    Obj("Message",
        [sender_id |-> sender_id, content |-> content, timestamp |-> timestamp,
         message_id |-> message_id, in_reply_to |-> in_reply_to,
         audience |-> audience, recipient_id |-> recipient_id,
         raw_payload |-> raw_payload, a2a_envelope |-> a2a_envelope])

\* one call of self.client.publish; ok is whether the transport completed it
\* (FALSE: it raised)
Publish(topic, payload, ok) ==
    [call |-> "publish", topic |-> topic, payload |-> payload, qos |-> qos, ok |-> ok]

\* how a method ended: it returned value, or raised value; calls are the
\* transport calls it made, in order
Returned(value, calls) == [outcome |-> "return", value |-> value, calls |-> calls]
Raised(name, calls) == [outcome |-> "raise", value |-> Err(name), calls |-> calls]

\* a self.client.publish call outside a try block: value is what the caller
\* goes on to return if the transport completes the call; it raises otherwise
DirectPublish(topic, payload, value, pubok) ==
    IF pubok THEN Returned(value, <<Publish(topic, payload, TRUE)>>)
    ELSE Raised("TransportError", <<Publish(topic, payload, FALSE)>>)

\* a slip in the topic choice: every message goes to the group topic
TargetTopic_group(audience, recipient_id) == group_topic

\* the topic an outgoing message goes to
TargetTopic(audience, recipient_id) ==
    IF audience = "EVERYONE" THEN group_topic ELSE DirectTopicOf(recipient_id)

\* a slip in the precondition: the joined flag is not looked at
NotJoined_never(isJoined) == FALSE

\* lines 197 and 266, "if not self._joined": the precondition of a send
NotJoined(isJoined) == ~isJoined

\* a slip in the recipient check: "recipient_id is None" in place of
\* "not recipient_id"
MissingRecipient_none(audience, recipient_id) ==
    audience = "DIRECT" /\ IsNone(recipient_id)

\* lines 200 and 269: a direct send that names no recipient
MissingRecipient(audience, recipient_id) ==
    audience = "DIRECT" /\ ~Truthy(recipient_id)

\* a slip in send_message: the try/except around the publish is missing
send_message_uncaught(content, audience, recipient_id, in_reply_to, isJoined, uuid, pubok) ==
    IF NotJoined(isJoined) THEN Raised("ConnectionError", <<>>)
    ELSE IF MissingRecipient(audience, recipient_id) THEN Raised("ValueError", <<>>)
    ELSE DirectPublish(TargetTopic(audience, recipient_id),
                       Map([sender_id |-> agent_id,
                            content |-> content,
                            timestamp |-> Now,
                            message_id |-> uuid,
                            in_reply_to |-> in_reply_to,
                            audience |-> Str(AudienceValue(audience)),
                            recipient_id |-> recipient_id]),
                       uuid, pubok)

\* AgentNode.send_message.  uuid is the generated message id, pubok whether
\* the transport's publish completes.
send_message(content, audience, recipient_id, in_reply_to, isJoined, uuid, pubok) ==
    IF NotJoined(isJoined) THEN Raised("ConnectionError", <<>>)
    ELSE IF MissingRecipient(audience, recipient_id) THEN Raised("ValueError", <<>>)
    ELSE
      LET message_dict == Map([sender_id |-> agent_id,
                               content |-> content,
                               timestamp |-> Now,
                               message_id |-> uuid,
                               in_reply_to |-> in_reply_to,
                               audience |-> Str(AudienceValue(audience)),
                               recipient_id |-> recipient_id])
          call == Publish(TargetTopic(audience, recipient_id), message_dict, pubok)
      IN Returned(IF pubok THEN uuid ELSE Null, <<call>>)

\* the keyword arguments of send_a2a_request, with their defaults
A2AArgs ==
    [text |-> Null, message |-> Null, parts |-> Null, role |-> Str("user"),
     audience |-> "DIRECT", recipient_id |-> Null, configuration |-> Null,
     message_metadata |-> Null, request_metadata |-> Null, extensions |-> Null,
     reference_task_ids |-> Null, task_id |-> Null, context_id |-> Null,
     request_id |-> Null, message_id |-> Null]

\* a slip in the validation of identifier lists: any item passes
AllStr_any(lst) == TRUE

\* lines 284 and 290: all(isinstance(item, str) for item in ...)
AllStr(lst) == \A i \in 1..Len(lst.v) : IsStr(lst.v[i])

\* "if cond: message = message.with_updates(fld=x)"
UpdatedIf(cond, m, fld, x) == IF cond THEN A2AMessage_with_updates(m, fld, x) ELSE m

\* lines 302-329: the message the request carries
ConstructedMessage(a, part_list, uuid) ==
    IF IsNone(a.message)
    THEN A2AMessage(a.role, List(part_list), PyOr(a.message_id, uuid), Str("message"),
                    a.message_metadata, a.extensions, a.reference_task_ids,
                    a.task_id, a.context_id)
    ELSE
      LET m0 == a.message
          m1 == UpdatedIf(Truthy(a.message_metadata), m0, "metadata",
                          Map(a.message_metadata.v @@ PyOr(m0.v.metadata, EmptyMap).v))
          m2 == UpdatedIf(~IsNone(a.extensions), m1, "extensions", a.extensions)
          m3 == UpdatedIf(~IsNone(a.reference_task_ids), m2,
                          "reference_task_ids", a.reference_task_ids)
          m4 == UpdatedIf(~IsNone(a.task_id), m3, "task_id", a.task_id)
          m5 == UpdatedIf(~IsNone(a.context_id), m4, "context_id", a.context_id)
          Renamed(m) == UpdatedIf(~IsNone(a.message_id) /\ a.message_id # m.v.message_id,
                                  m, "message_id", a.message_id)
      IN Renamed(m5)

\* AgentNode.send_a2a_request.  uuid1 and uuid2 are the generated message id
\* and request id, pubok whether the transport's publish completes.
send_a2a_request(a, isJoined, uuid1, uuid2, pubok) ==
    IF NotJoined(isJoined) THEN Raised("ConnectionError", <<>>)
    ELSE IF MissingRecipient(a.audience, a.recipient_id) THEN Raised("ValueError", <<>>)
    ELSE IF ~IsNone(a.message_metadata) /\ ~IsDict(a.message_metadata)
    THEN Raised("ValueError", <<>>)
    ELSE IF ~IsNone(a.request_metadata) /\ ~IsDict(a.request_metadata)
    THEN Raised("ValueError", <<>>)
    ELSE IF a.role \notin {Str("user"), Str("agent")} THEN Raised("ValueError", <<>>)
    ELSE IF ~IsNone(a.extensions) /\ ~AllStr(a.extensions) THEN Raised("ValueError", <<>>)
    ELSE IF ~IsNone(a.reference_task_ids) /\ ~AllStr(a.reference_task_ids)
    THEN Raised("ValueError", <<>>)
    ELSE IF ~IsNone(a.parts) /\ \E i \in 1..Len(a.parts.v) : a.parts.v[i].t # "Part"
    THEN Raised("ValueError", <<>>)
    ELSE
      LET parts0 == IF IsNone(a.parts) THEN <<>> ELSE a.parts.v
          part_list == IF IsNone(a.text) THEN parts0
                       ELSE Append(parts0, create_text_part(a.text))
      IN IF IsNone(a.message) /\ part_list = <<>> THEN Raised("ValueError", <<>>)
         ELSE
           LET Sent(request) ==
                 DirectPublish(TargetTopic(a.audience, a.recipient_id),
                               SendMessageRequest_to_dict(request), request.v.id, pubok)
           IN Sent(create_send_message_request(
                     ConstructedMessage(a, part_list, uuid1),
                     a.request_id, a.configuration, a.request_metadata, uuid2))

\* _handle_message, lines 358-370: audience and recipient of an inbound payload
InboundAudience(topic, payload) ==
    LET audience_value == Get(payload, "audience")
    IN IF IsStr(audience_value) /\ audience_value.v \in AudienceValues
       THEN AudienceOf(audience_value.v)
       ELSE IF IsDirectTopic(topic) THEN "DIRECT" ELSE "EVERYONE"

\* a slip in the recipient: the payload's recipient_id is not read
InboundRecipient_self(audience, payload) ==
    IF audience = "DIRECT" THEN agent_id ELSE Null

InboundRecipient(audience, payload) ==
    LET recipient_id == IF audience = "DIRECT" THEN Get(payload, "recipient_id") ELSE Null
    IN IF audience = "DIRECT" /\ IsNone(recipient_id) THEN agent_id ELSE recipient_id

ReplyKeys == <<"in_reply_to", "inReplyTo", "reply_to", "replyTo">>

\* lines 383-389: the first reply key of the metadata that holds a string
InReplyToOf(metadata) ==
    LET hit == {i \in 1..Len(ReplyKeys) : IsStr(Get(metadata, ReplyKeys[i]))}
    IN IF hit = {} THEN Null
       ELSE Get(metadata, ReplyKeys[CHOOSE i \in hit : \A j \in hit : i <= j])

Dropped(why) == [t |-> "drop", v |-> why]

\* a slip in the self check: the sender compared with the room id
IsSelf_room(sender_id) == sender_id = Str(room_id)

\* a slip in the self check: it is missing
IsSelf_never(sender_id) == FALSE

\* lines 379 and 405: the sender is this node
IsSelf(sender_id) == sender_id = agent_id

\* a slip in the key check: payload.get(key) in place of payload[key]
HasKey_get(payload, key) == TRUE

\* lines 404 and 413: payload[key] raises KeyError, caught at line 414, when
\* the key is missing
HasKey(payload, key) == key \in DOMAIN payload.v

\* _handle_message, lines 354-427: the Message built from an inbound payload,
\* or Dropped(reason) where the method returns before the handler loop.
\* uuid is the message id generated for a legacy payload that has none.
NormalizeInbound(topic, payload, uuid) ==
    IF ~IsDict(payload) THEN Dropped("non-dict")
    ELSE
      LET audience == InboundAudience(topic, payload)
          recipient_id == InboundRecipient(audience, payload)
          timestamp == IF "timestamp" \in DOMAIN payload.v THEN payload.v["timestamp"] ELSE Now
          MessageOf(a2a_envelope) ==
            IF Truthy(a2a_envelope) THEN A2AEnvelope_message(a2a_envelope) ELSE Null
          BranchA(a2a_envelope, message_obj, sender_id) ==
            IF IsSelf(sender_id) THEN Dropped("self")
            ELSE Message(sender_id,
                         PyOr(A2AMessage_primary_text(message_obj),
                              A2AMessage_to_dict(message_obj)),
                         timestamp,
                         message_obj.v.message_id,
                         InReplyToOf(PyOr(message_obj.v.metadata, EmptyMap)),
                         audience, recipient_id, payload, a2a_envelope)
          BranchB ==
            IF ~HasKey(payload, "sender_id") THEN Dropped("malformed")
            ELSE IF IsSelf(Get(payload, "sender_id")) THEN Dropped("self")
            ELSE IF ~HasKey(payload, "content") THEN Dropped("malformed")
            ELSE Message(Get(payload, "sender_id"),
                         Get(payload, "content"),
                         timestamp,
                         PyOr(PyOr(Get(payload, "message_id"), Get(payload, "messageId")),
                              uuid),
                         PyOr(Get(payload, "in_reply_to"), Get(payload, "inReplyTo")),
                         audience, recipient_id, payload, Null)
          Branch(a2a_envelope, message_obj) ==
            IF Truthy(a2a_envelope) /\ Truthy(message_obj)
            THEN BranchA(a2a_envelope, message_obj,
                         derive_sender_id_from_message(message_obj))
            ELSE BranchB
          Parsed(a2a_envelope) == Branch(a2a_envelope, MessageOf(a2a_envelope))
      IN Parsed(parse_a2a_envelope(payload))

\* a handler call that raised
HandlerRaised == Err("HandlerError")

\* a slip in the mirrored topic: the recipient in place of the sender
MirrorTopic_recipient(message) ==
    IF message.v.audience = "EVERYONE" THEN group_topic
    ELSE DirectTopicOf(message.v.recipient_id)

\* a slip in the target: a direct message is answered on the node's own
\* direct topic
MirrorTopic_own(message) ==
    IF message.v.audience = "EVERYONE" THEN group_topic ELSE direct_topic

\* lines 443-447 and 466-470: where a ready-made response goes
MirrorTopic(message) ==
    IF message.v.audience = "EVERYONE" THEN group_topic
    ELSE DirectTopicOf(message.v.sender_id)

\* lines 438-476: the branch of the loop body a response takes
BranchOf(response) ==
    IF IsNone(response) THEN "none"
    ELSE IF response.t = "Request" THEN "request"
    ELSE IF response.t = "A2AMessage" THEN "a2a"
    ELSE IF IsDict(response) /\ is_a2a_envelope(response) THEN "envelope"
    ELSE "content"

\* slips in the end of a branch: "return" after a response was published, and
\* a missing "continue" after an envelope mapping was forwarded
AfterBranch_return(branch) == IF branch = "none" THEN "continue" ELSE "return"
AfterBranch_fall(branch) == IF branch = "envelope" THEN "fallthrough" ELSE "continue"

\* lines 439, 453, 463 and 476: every branch ends with "continue"
AfterBranch(branch) == "continue"

\* the exception a method result carries, Null if it returned
ExcOf(r) == IF r.outcome = "raise" THEN r.value ELSE Null

\* _handle_message, lines 436-485: the try body of one loop iteration, given
\* the handler's response (HandlerRaised: the handler raised).  calls are the
\* transport calls made, exc the exception that reached the except clause
\* (Null: none), next what follows the iteration.
RespondTo(message, response, isJoined, uuid1, uuid2, pubok) ==
    LET reply_to == IF message.v.audience = "DIRECT" THEN message.v.sender_id ELSE Null
        legacy == send_message(response, message.v.audience, reply_to,
                               message.v.message_id, isJoined, uuid1, pubok)
        branch == BranchOf(response)
        after == IF branch = "content" THEN "continue" ELSE AfterBranch(branch)
        Ended(r) ==
          IF IsErr(response) THEN [calls |-> <<>>, exc |-> response, next |-> "continue"]
          ELSE IF r.outcome = "raise"
          THEN [calls |-> r.calls, exc |-> r.value, next |-> "continue"]
          ELSE IF after = "fallthrough"
          THEN [calls |-> r.calls \o legacy.calls, exc |-> ExcOf(legacy),
                next |-> "continue"]
          ELSE [calls |-> r.calls, exc |-> Null, next |-> after]
    IN Ended(CASE branch = "none" -> Returned(Null, <<>>)
               [] branch = "request" ->
                    DirectPublish(MirrorTopic(message),
                                  SendMessageRequest_to_dict(response), Null, pubok)
               [] branch = "a2a" ->
                    send_a2a_request(
                      [A2AArgs EXCEPT !.message = response,
                                      !.audience = message.v.audience,
                                      !.recipient_id = reply_to],
                      isJoined, uuid1, uuid2, pubok)
               [] branch = "envelope" ->
                    DirectPublish(MirrorTopic(message), response, Null, pubok)
               [] OTHER -> legacy)

\* a slip in the except clause: "except ValueError"
LoopCatches_value(exc) == exc = Err("ValueError")

\* line 486, "except Exception": the exceptions the except clause of the
\* handler loop catches
LoopCatches(exc) == IsErr(exc)

\* transport calls of join and leave
Connect(ok) == [call |-> "connect", ok |-> ok]
Disconnect(ok) == [call |-> "disconnect", ok |-> ok]
Subscribe(topic, ok) ==
    [call |-> "subscribe", topic |-> topic, callback |-> "_handle_message",
     qos |-> qos, ok |-> ok]
Unsubscribe(topic, ok) == [call |-> "unsubscribe", topic |-> topic, ok |-> ok]

\* a slip in the subscription choice: the participation flags are not read
EnabledTopics_both(c) == <<group_topic, direct_topic>>

\* the topics join subscribes to and leave unsubscribes from, in call order
EnabledTopics(c) ==
    (IF c.respond_to_group THEN <<group_topic>> ELSE <<>>)
      \o (IF c.respond_to_direct THEN <<direct_topic>> ELSE <<>>)

\* the calls a method makes when the k-th of the planned calls raises
\* (k = 0: none raises): the calls before it complete, those after it are
\* never made
CallsMade(planned, k) ==
    IF k = 0 THEN planned
    ELSE [i \in 1..k |-> IF i = k THEN [planned[i] EXCEPT !.ok = FALSE] ELSE planned[i]]

TopicsOf(calls, name) ==
    {calls[i].topic : i \in {j \in 1..Len(calls) : calls[j].call = name /\ calls[j].ok}}

\* a slip in join: the "already joined" return is missing
join_again(c, isJoined, k) ==
    LET topics == EnabledTopics(c)
        planned == <<Connect(TRUE)>>
                     \o [i \in 1..Len(topics) |-> Subscribe(topics[i], TRUE)]
    IN IF k = 0 THEN Returned(Bool(TRUE), planned)
       ELSE Raised("TransportError", CallsMade(planned, k))

\* a slip in join: a failure of the transport is caught and reported as a
\* return value
join_caught(c, isJoined, k) ==
    IF isJoined THEN Returned(Bool(TRUE), <<>>)
    ELSE
      LET topics == EnabledTopics(c)
          planned == <<Connect(TRUE)>>
                       \o [i \in 1..Len(topics) |-> Subscribe(topics[i], TRUE)]
      IN Returned(Bool(k = 0), CallsMade(planned, k))

\* AgentNode.join, with the k-th transport call raising
join(c, isJoined, k) ==
    IF isJoined THEN Returned(Bool(TRUE), <<>>)
    ELSE
      LET topics == EnabledTopics(c)
          planned == <<Connect(TRUE)>>
                       \o [i \in 1..Len(topics) |-> Subscribe(topics[i], TRUE)]
      IN IF k = 0 THEN Returned(Bool(TRUE), planned)
         ELSE Raised("TransportError", CallsMade(planned, k))

\* slips in leave: the "not joined" return is missing; the disconnect is
\* missing
leave_again(c, isJoined, k) ==
    LET topics == EnabledTopics(c)
        planned == [i \in 1..Len(topics) |-> Unsubscribe(topics[i], TRUE)]
                     \o <<Disconnect(TRUE)>>
    IN Returned(Bool(k = 0), CallsMade(planned, k))

leave_connected(c, isJoined, k) ==
    IF ~isJoined THEN Returned(Bool(TRUE), <<>>)
    ELSE
      LET topics == EnabledTopics(c)
          planned == [i \in 1..Len(topics) |-> Unsubscribe(topics[i], TRUE)]
      IN Returned(Bool(k = 0 \/ k > Len(planned)),
                  CallsMade(planned, IF k > Len(planned) THEN 0 ELSE k))

\* a slip in leave: the try/except around the transport calls is missing
leave_uncaught(c, isJoined, k) ==
    IF ~isJoined THEN Returned(Bool(TRUE), <<>>)
    ELSE
      LET topics == EnabledTopics(c)
          planned == [i \in 1..Len(topics) |-> Unsubscribe(topics[i], TRUE)]
                       \o <<Disconnect(TRUE)>>
      IN IF k = 0 THEN Returned(Bool(TRUE), planned)
         ELSE Raised("TransportError", CallsMade(planned, k))

\* AgentNode.leave, with the k-th transport call raising
leave(c, isJoined, k) ==
    IF ~isJoined THEN Returned(Bool(TRUE), <<>>)
    ELSE
      LET topics == EnabledTopics(c)
          planned == [i \in 1..Len(topics) |-> Unsubscribe(topics[i], TRUE)]
                       \o <<Disconnect(TRUE)>>
      IN Returned(Bool(k = 0), CallsMade(planned, k))

(***************************************************************************)
(* Bounds and inputs                                                       *)
(***************************************************************************)
MaxHandlers == 2

\* the k-th registered handler is named by k
HandlerName(k) == "h" \o ToString(k)

\* str(uuid.uuid4()): the first and the second identifier a call generates
Uuid1 == Str("uuid-1")
Uuid2 == Str("uuid-2")

Peer == Str("peer")

Ping(metadata) ==
    create_text_message(Str("Ping"), Str("user"), Str("m-ping"), metadata, Null)
Pong == create_text_message(Str("Pong"), Str("agent"), Str("m-pong"), Null, Null)

RequestTree(message, id) ==
    SendMessageRequest_to_dict(create_send_message_request(message, id, Null, Null, Null))

\* inbound legacy chat payloads
LegacyPayloads ==
    { Map([sender_id |-> Peer, content |-> Str("Hello!"), timestamp |-> Str("t0"),
           message_id |-> Str("msg-123"), audience |-> Str("everyone")]),
      Map([sender_id |-> Peer, content |-> Str("Direct message"),
           message_id |-> Str("msg-456"), audience |-> Str("direct"),
           recipient_id |-> agent_id]),
      Map([sender_id |-> Peer, content |-> Str("no audience")]),
      Map([sender_id |-> agent_id, content |-> Str("My message"),
           message_id |-> Str("msg-123"), audience |-> Str("everyone")]),
      Map([sender_id |-> Str(""), content |-> Str("anonymous"),
           messageId |-> Str("msg-789")]),
      Map([sender_id |-> Null, content |-> Str("null sender"),
           audience |-> Str("direct")]),
      Map([sender_id |-> Peer, content |-> Str("odd audience"),
           audience |-> Str("bogus"), in_reply_to |-> Str("msg-000")]) }

\* payloads the normalizer drops as malformed
MalformedPayloads ==
    { Str("not a mapping"), Null, List(<<Str("sender_id"), Str("content")>>),
      Map([sender_id |-> Peer]),
      Map([content |-> Str("no sender")]),
      Map([jsonrpc |-> Str("2.0"), id |-> Str("req-1"), method |-> Str("message/send"),
           params |-> Map([message |-> Map([role |-> Str("robot")])])]) }

\* inbound A2A JSON-RPC payloads
A2APayloads ==
    { RequestTree(Ping(Map([sender_id |-> Peer])), Str("req-234")),
      RequestTree(Ping(Map([senderId |-> agent_id])), Str("req-235")),
      RequestTree(Ping(Map([sender_id |-> Str("  "), agentId |-> agent_id])), Str("req-236")),
      RequestTree(A2AMessage_with_updates(Ping(Null), "context_id", agent_id), Num(7)),
      RequestTree(A2AMessage_with_updates(Ping(Null), "task_id", Str("task-1")), Null),
      RequestTree(Ping(Map([replyTo |-> Str("msg-000")])), Str("req-237")),
      Map([jsonrpc |-> Str("2.0"), id |-> Str("req-9"),
           result |-> A2AMessage_to_dict(Ping(Map([authorId |-> Peer])))]),
      Map([jsonrpc |-> Str("2.0"), id |-> Str("req-9"), result |-> Str("done"),
           sender_id |-> Peer, content |-> Str("legacy keys in an envelope")]),
      Map([jsonrpc |-> Str("2.0"), id |-> Str("req-238"), method |-> Str("message/send"),
           params |-> Map([message |-> A2AMessage_to_dict(Ping(Map([sender_id |-> Peer]))),
                           configuration |-> Map([historyLength |-> Str("five")])])]) }

OtherTopic == <<"rooms", "other", "direct", "agent">>

\* what the transport delivers from other publishers
Deliveries ==
    { [topic |-> direct_topic, payload |-> pl] :
        pl \in LegacyPayloads \cup MalformedPayloads \cup A2APayloads }
    \cup { [topic |-> group_topic, payload |-> pl] : pl \in LegacyPayloads }
    \cup { [topic |-> tp, payload |-> pl] :
             tp \in {group_topic, OtherTopic},
             pl \in { Str("not a mapping"),
                      Map([content |-> Str("no sender")]),
                      RequestTree(Ping(Map([sender_id |-> Peer])), Str("req-234")),
                      RequestTree(Ping(Map([senderId |-> agent_id])), Str("req-235")) } }

\* what a handler call may produce: an exception or a return value
Responses ==
    { HandlerRaised, Null, Str("Response"), Str(""),
      Map([jsonrpc |-> Str("1.0"), note |-> Str("not an envelope")]),
      Pong,
      create_send_message_request(Pong, Str("req-out"), Null, Null, Null),
      Map([jsonrpc |-> Str("2.0"), id |-> Str("req-234"),
           result |-> A2AMessage_to_dict(Pong)]) }

\* arguments of the send_message calls of the model
SendMessageInputs ==
    { [content |-> Str("hi"), audience |-> au, recipient_id |-> rc, in_reply_to |-> Null] :
        au \in {"EVERYONE", "DIRECT"}, rc \in {Null, Str(""), Peer, agent_id} }

\* arguments send_a2a_request rejects, one for each of its checks
InvalidA2AInputs ==
    { [A2AArgs EXCEPT !.text = Str("hi"), !.recipient_id = Peer, !.role = Str("robot")],
      [A2AArgs EXCEPT !.text = Str("hi"), !.recipient_id = Peer,
                      !.message_metadata = Str("meta")],
      [A2AArgs EXCEPT !.text = Str("hi"), !.recipient_id = Peer,
                      !.request_metadata = List(<<Str("meta")>>)],
      [A2AArgs EXCEPT !.text = Str("hi"), !.recipient_id = Peer,
                      !.extensions = List(<<Str("ext-1"), Num(1)>>)],
      [A2AArgs EXCEPT !.text = Str("hi"), !.recipient_id = Peer,
                      !.reference_task_ids = List(<<Null>>)],
      [A2AArgs EXCEPT !.text = Str("hi"), !.recipient_id = Peer,
                      !.parts = List(<<Str("not a part")>>)],
      [A2AArgs EXCEPT !.audience = "EVERYONE", !.parts = List(<<>>)] }

\* arguments of the send_a2a_request calls of the model
SendA2AInputs ==
    { [A2AArgs EXCEPT !.text = Str("Hello via A2A"), !.recipient_id = Peer],
      [A2AArgs EXCEPT !.text = Str("Hello via A2A"), !.audience = "EVERYONE"],
      [A2AArgs EXCEPT !.text = Str("Hello via A2A"), !.recipient_id = agent_id],
      [A2AArgs EXCEPT !.text = Str("Hello via A2A"), !.audience = "EVERYONE",
                      !.message_metadata = Map([sender_id |-> agent_id])],
      [A2AArgs EXCEPT !.message = Pong, !.audience = "EVERYONE",
                      !.request_id = Str("req-42")],
      [A2AArgs EXCEPT !.text = Str("Hello via A2A")],
      [A2AArgs EXCEPT !.recipient_id = Peer],
      [A2AArgs EXCEPT !.text = Str("second"), !.recipient_id = Peer,
                      !.parts = List(<<create_text_part(Str("first"))>>),
                      !.extensions = List(<<Str("ext-1")>>)] }
    \cup InvalidA2AInputs

(***************************************************************************)
(* State                                                                   *)
(*   cfg       respond_to_group / respond_to_direct of the node            *)
(*   joined    self._joined                                                *)
(*   handlers  self._message_handlers                                      *)
(*   subs      the topics the transport holds a subscription for           *)
(*   net       the node's latest publish, if it was on a topic the node is *)
(*             subscribed to and the transport has still to deliver it     *)
(*             back to the node (the transport keeps the latest one)       *)
(*   d         the _handle_message call of the delivery thread: where it   *)
(*             is (pc), the delivery, the normalized message, the loop     *)
(*             index, the handlers called so far and the latest iteration; *)
(*             a finished call is kept until the node's next operation     *)
(*   last      the join/leave/send/add_message_handler call just made and  *)
(*             how it ended (recorded between deliveries)                  *)
(***************************************************************************)
NoStep == [h |-> "", response |-> Null, calls |-> <<>>, exc |-> Null,
           wasJoined |-> FALSE]

Idle == [pc |-> "idle", topic |-> <<>>, payload |-> Null, own |-> FALSE,
         msg |-> Null, idx |-> 0, hs0 |-> <<>>, invoked |-> <<>>, npub |-> 0,
         ncaught |-> 0, escaped |-> FALSE, step |-> NoStep]

NoCall == [op |-> "none", args |-> Null, res |-> Returned(Null, <<>>), wasJoined |-> FALSE]

Init ==
    /\ cfg = [respond_to_group |-> TRUE, respond_to_direct |-> TRUE]
    /\ joined = FALSE
    /\ subs = {}
    /\ handlers = <<>>
    /\ net = {}
    /\ d = Idle
    /\ last = NoCall

\* the successful publishes among calls that the node's own subscriptions match
Loopbacks(calls, subscribed) ==
    { [topic |-> calls[i].topic, payload |-> calls[i].payload] :
        i \in {j \in 1..Len(calls) :
                 calls[j].call = "publish" /\ calls[j].ok /\ calls[j].topic \in subscribed} }

Forget(dispatch) == IF dispatch.pc = "done" THEN Idle ELSE dispatch

\* calls made while a delivery is in flight are not recorded in last
Record(call) == IF d.pc = "run" THEN NoCall ELSE call

\* a slip in add_message_handler: the handler is inserted at the front
AddHandler_prepend ==
    /\ Len(handlers) < MaxHandlers
    /\ handlers' = <<HandlerName(Len(handlers) + 1)>> \o handlers
    /\ last' = Record([NoCall EXCEPT !.op = "add_message_handler", !.wasJoined = joined])
    /\ d' = Forget(d)
    /\ UNCHANGED <<joined, subs, net, cfg>>

\* add_message_handler
AddHandler ==
    /\ Len(handlers) < MaxHandlers
    /\ handlers' = Append(handlers, HandlerName(Len(handlers) + 1))
    /\ last' = Record([NoCall EXCEPT !.op = "add_message_handler", !.wasJoined = joined])
    /\ d' = Forget(d)
    /\ UNCHANGED <<joined, subs, net, cfg>>

\* join, where the transport call numbered by some k of K raises (0: none)
JoinWith(K) ==
    \E k \in K :
      LET r == join(cfg, joined, k)
      IN /\ last' = Record([op |-> "join", args |-> Null, res |-> r, wasJoined |-> joined])
         /\ joined' = (joined \/ r.outcome = "return")
         /\ subs' = subs \cup TopicsOf(r.calls, "subscribe")
         /\ d' = Forget(d)
         /\ UNCHANGED <<handlers, net, cfg>>

\* leave, where the transport call numbered by some k of K raises (0: none)
LeaveWith(K) ==
    \E k \in K :
      LET r == leave(cfg, joined, k)
      IN /\ last' = Record([op |-> "leave", args |-> Null, res |-> r, wasJoined |-> joined])
         /\ joined' = (joined /\ r.value # Bool(TRUE))
         /\ subs' = subs \ TopicsOf(r.calls, "unsubscribe")
         /\ d' = Forget(d)
         /\ UNCHANGED <<handlers, net, cfg>>

\* join and leave over a transport that completes every call
Join == JoinWith({0})
Leave == LeaveWith({0})

SendMessage ==
    \E a \in SendMessageInputs, pubok \in BOOLEAN :
      LET r == send_message(a.content, a.audience, a.recipient_id, a.in_reply_to,
                            joined, Uuid1, pubok)
      IN /\ d.pc # "run"
         /\ last' = [op |-> "send_message", args |-> Map(a), res |-> r, wasJoined |-> joined]
         /\ net' = Loopbacks(r.calls, subs)
         /\ d' = Idle
         /\ UNCHANGED <<joined, subs, handlers, cfg>>

SendA2A ==
    /\ d.pc # "run"
    /\ \E a \in SendA2AInputs, pubok \in BOOLEAN :
       \E r \in {send_a2a_request(a, joined, Uuid1, Uuid2, pubok)} :
         /\ last' = [op |-> "send_a2a_request", args |-> Map(a), res |-> r,
                     wasJoined |-> joined]
         /\ net' = Loopbacks(r.calls, subs)
         /\ d' = Idle
         /\ UNCHANGED <<joined, subs, handlers, cfg>>

\* _handle_message up to the handler loop
Begun(topic, payload, own, msg, hs) ==
    [Idle EXCEPT !.pc = IF msg.t = "drop" THEN "done" ELSE "run",
                 !.topic = topic, !.payload = payload, !.own = own,
                 !.msg = msg, !.hs0 = hs]

BeginDispatch(topic, payload, own) ==
    \E msg \in {NormalizeInbound(topic, payload, Uuid1)} :
       d' = Begun(topic, payload, own, msg, handlers)

\* the transport delivers a payload of another publisher
DeliverExternal ==
    \E m \in Deliveries :
      /\ d.pc # "run"
      /\ net = {}
      /\ BeginDispatch(m.topic, m.payload, FALSE)
      /\ last' = NoCall
      /\ UNCHANGED <<joined, subs, handlers, net, cfg>>

\* the transport delivers back a payload the node itself published
DeliverLoopback ==
    \E m \in net :
      /\ d.pc # "run"
      /\ BeginDispatch(m.topic, m.payload, TRUE)
      /\ net' = net \ {m}
      /\ last' = NoCall
      /\ UNCHANGED <<joined, subs, handlers, cfg>>

\* line 435: the handler the loop takes next, and whether the list is exhausted
NextHandler(hs, idx) == hs[idx + 1]
Exhausted(hs, idx) == idx >= Len(hs)

\* lines 435-487: the dispatch after the iteration that called handler h,
\* got response and translated it with outcome r
Invoked(dispatch, h, response, r, isJoined) ==
    LET caught == ~IsNone(r.exc) /\ LoopCatches(r.exc)
        escaped == ~IsNone(r.exc) /\ ~LoopCatches(r.exc)
    IN [dispatch EXCEPT
          !.pc = IF escaped \/ r.next = "return" THEN "done" ELSE "run",
          !.idx = dispatch.idx + 1,
          !.invoked = Append(dispatch.invoked, h),
          !.npub = dispatch.npub + Len(r.calls),
          !.ncaught = dispatch.ncaught + (IF caught THEN 1 ELSE 0),
          !.escaped = escaped,
          !.step = [h |-> h, response |-> response, calls |-> r.calls,
                    exc |-> r.exc, wasJoined |-> isJoined]]

\* one iteration of the handler loop: the next handler of the list is called
\* and its response translated
InvokeHandler ==
    /\ d.pc = "run"
    /\ ~Exhausted(handlers, d.idx)
    /\ \E response \in Responses, pubok \in BOOLEAN :
       \E r \in {RespondTo(d.msg, response, joined, Uuid1, Uuid2, pubok)} :
         /\ d' = Invoked(d, NextHandler(handlers, d.idx), response, r, joined)
         /\ net' = Loopbacks(r.calls, subs)
         /\ last' = NoCall
         /\ UNCHANGED <<joined, subs, handlers, cfg>>

\* the handler loop finds the list exhausted and _handle_message returns
EndDispatch ==
    /\ d.pc = "run"
    /\ Exhausted(handlers, d.idx)
    /\ d' = [d EXCEPT !.pc = "done"]
    /\ last' = NoCall
    /\ UNCHANGED <<joined, subs, handlers, net, cfg>>

Next ==
    \/ AddHandler
    \/ Join
    \/ Leave
    \/ SendMessage
    \/ SendA2A
    \/ DeliverExternal
    \/ DeliverLoopback
    \/ InvokeHandler
    \/ EndDispatch

Spec == Init /\ [][Next]_vars

(***************************************************************************)
(* The life cycle of a node with any setting of its participation flags,   *)
(* over a transport whose calls may raise                                  *)
(***************************************************************************)
InitAnyConfig ==
    /\ cfg \in [respond_to_group : BOOLEAN, respond_to_direct : BOOLEAN]
    /\ joined = FALSE
    /\ subs = {}
    /\ handlers = <<>>
    /\ net = {}
    /\ d = Idle
    /\ last = NoCall

\* the number of transport calls a join and a leave of the node plan
PlannedCalls == 1 + Len(EnabledTopics(cfg))

\* join and leave where any one of the planned transport calls, or none, raises
JoinFaulty == JoinWith(0..PlannedCalls)
LeaveFaulty == LeaveWith(0..PlannedCalls)

NextLifecycle ==
    \/ JoinFaulty
    \/ LeaveFaulty
    \/ SendMessage

SpecLifecycle == InitAnyConfig /\ [][NextLifecycle]_vars

(***************************************************************************)
(* derive_sender_id_from_message applied to messages drawn from            *)
(* DeriveInputs: last.args holds the message, last.res the result          *)
(***************************************************************************)
\* values a metadata key may hold: its own identity, padded, blank, empty,
\* no string
MetaValues(k) ==
    {Str("id-" \o k), Str(" " \o k \o " "), Str("  "), Str(""), Num(7), Null}

\* metadata of a message: none, empty, any two of the sender keys with any
\* of their values, and all the sender keys
MetadataInputs ==
    {Null, EmptyMap, Map([k \in {SenderKeys[i] : i \in 1..6} |-> Str("id-" \o k)])}
    \cup UNION { { Map((SenderKeys[i] :> x) @@ (SenderKeys[j] :> y)) :
                     x \in MetaValues(SenderKeys[i]), y \in MetaValues(SenderKeys[j]) } :
                 i \in 1..6, j \in 1..6 }

DeriveInputs ==
    { A2AMessage(role, List(<<create_text_part(Str("content"))>>), Str("msg-1"),
                 Str("message"), metadata, Null, Null, task_id, context_id) :
        role \in {Str("user"), Str("agent")},
        metadata \in MetadataInputs,
        task_id \in {Null, Str(""), Str("task-1")},
        context_id \in {Null, Str(""), Str("ctx-1")} }

InitDerive ==
    /\ cfg = [respond_to_group |-> TRUE, respond_to_direct |-> TRUE]
    /\ joined = FALSE
    /\ subs = {}
    /\ handlers = <<>>
    /\ net = {}
    /\ d = Idle
    /\ \E message \in DeriveInputs : last = [NoCall EXCEPT !.args = message]

Derive ==
    /\ last.op = "none"
    /\ last' = [last EXCEPT !.op = "derive_sender_id_from_message",
                            !.res = Returned(derive_sender_id_from_message(last.args), <<>>)]
    /\ UNCHANGED <<joined, subs, handlers, net, d, cfg>>

NextDerive == Derive

SpecDerive == InitDerive /\ [][NextDerive]_vars

(***************************************************************************)
(* The tree conversions of a2a.py applied to values drawn from the input   *)
(* sets below: last.args holds the input, last.res the result              *)
(***************************************************************************)
PartInputs ==
    { Part(kind, data, metadata) :
        kind \in {Str("text"), Str("data")},
        data \in {EmptyMap, Map([text |-> Str("hello")]), Map([text |-> Str("")]),
                  Map([data |-> Map([n |-> Num(1)])])},
        metadata \in {Null, EmptyMap, Map([note |-> Str("n")])} }

Hello == create_text_part(Str("hello"))
Blob == Part(Str("data"), Map([data |-> Map([n |-> Num(1)])]), Null)

MessageInputs ==
    { A2AMessage(role, List(parts), Str("msg-1"), Str("message"), metadata, extensions,
                 reference_task_ids, task_id, context_id) :
        role \in {Str("user"), Str("agent")},
        parts \in {<<Hello>>, <<Hello, Blob>>, <<Blob, Hello>>},
        metadata \in {Null, EmptyMap, Map([sender_id |-> Peer])},
        extensions \in {Null, List(<<>>), List(<<Str("ext-1"), Str("ext-2")>>)},
        reference_task_ids \in {Null, List(<<Str("task-0")>>)},
        task_id \in {Null, Str(""), Str("task-1")},
        context_id \in {Null, Str(""), Str("ctx-1")} }

ParamsInputs ==
    { Null,
      MessageSendParams(Pong, Null, Null),
      MessageSendParams(Ping(Map([sender_id |-> Peer])),
                        MessageSendConfiguration(List(<<Str("text/plain")>>), Num(5),
                                                 Null, Bool(TRUE)),
                        Map([trace_id |-> Str("trace")])) }

\* envelopes built with the constructor (raw keeps its default, {})
EnvelopeInputs ==
    { A2AEnvelope(JSONRPC_VERSION, id, method, params, result, error, EmptyMap) :
        id \in {Null, Str("req-1"), Num(0)},
        method \in {Null, Str("message/send")},
        params \in ParamsInputs,
        result \in {Null, Str("done"), A2AMessage_to_dict(Pong)},
        error \in {Null, Map([code |-> Num(1)])} }

\* a key left out of a tree
Absent == [t |-> "absent", v |-> ""]

\* the mapping with the keys of f that are not left out
Tree(f) == Map([k \in {j \in DOMAIN f : f[j] # Absent} |-> f[k]])

HelloTree == Map([kind |-> Str("text"), text |-> Str("hi")])

\* optional fields of a message tree: none, well typed, wrongly typed
OptionalInputs ==
    { [metadata |-> Absent, extensions |-> Absent, referenceTaskIds |-> Absent,
       taskId |-> Absent, contextId |-> Absent],
      [metadata |-> Map([sender_id |-> Peer]), extensions |-> List(<<Str("ext-1")>>),
       referenceTaskIds |-> List(<<Str("task-0")>>), taskId |-> Str("task-1"),
       contextId |-> Str("ctx-1")],
      [metadata |-> Str("meta"), extensions |-> Str("ext-1"), referenceTaskIds |-> Num(1),
       taskId |-> Num(3), contextId |-> List(<<Str("ctx-1")>>)],
      [metadata |-> List(<<>>), extensions |-> Map([n |-> Num(1)]),
       referenceTaskIds |-> Absent, taskId |-> Bool(TRUE), contextId |-> Str("ctx-1")] }

\* inputs of A2AMessage.from_dict
MessageTrees ==
    { Str("not a mapping"), Null, List(<<HelloTree>>) }
    \cup
    { Tree([role |-> role, parts |-> parts, messageId |-> messageId,
            message_id |-> message_id, metadata |-> o.metadata,
            extensions |-> o.extensions, referenceTaskIds |-> o.referenceTaskIds,
            taskId |-> o.taskId, contextId |-> o.contextId]) :
        role \in {Absent, Str("user"), Str("agent"), Str("robot"), Num(1)},
        parts \in {Absent, List(<<>>), Str("parts"), List(<<HelloTree>>),
                   List(<<HelloTree, Str("no part")>>),
                   List(<<Map([text |-> Str("no kind")])>>),
                   List(<<Map([kind |-> Num(1)]), HelloTree>>)},
        messageId \in {Absent, Null, Str("m-1"), Str(""), Num(7)},
        message_id \in {Absent, Str("alias"), Str(""), Num(7)},
        o \in OptionalInputs }

PingTree == A2AMessage_to_dict(Ping(Map([sender_id |-> Peer])))

\* params of an envelope tree: no mapping, no valid message, valid, and a
\* valid message beside a configuration that is not valid
ParamsTrees ==
    { Absent, Str("params"), EmptyMap,
      Map([message |-> Map([role |-> Str("robot")])]),
      Map([message |-> PingTree]),
      Map([message |-> PingTree,
           configuration |-> Map([historyLength |-> Num(5), blocking |-> Bool(FALSE)]),
           metadata |-> Map([trace_id |-> Str("trace")])]),
      Map([message |-> PingTree, configuration |-> Map([historyLength |-> Str("five")])]),
      Map([message |-> PingTree, configuration |-> Map([blocking |-> Str("yes")])]) }

\* inputs of A2AEnvelope.from_dict
EnvelopeTrees ==
    { Str("not a mapping"), Null, List(<<Str("2.0")>>) }
    \cup
    { Tree([jsonrpc |-> jsonrpc, id |-> id, method |-> method, params |-> params,
            result |-> result, error |-> error]) :
        jsonrpc \in {Absent, Str("2.0"), Str("1.0"), Num(2)},
        id \in {Absent, Str("req-1"), Num(0)},
        method \in {Absent, Str("message/send"), Str("tasks/get")},
        params \in ParamsTrees,
        result \in {Absent, Str("done"), PingTree},
        error \in {Absent, Map([code |-> Num(1)])} }

to_dict(x) ==
    CASE x.t = "Part" -> A2APart_to_dict(x)
      [] x.t = "A2AMessage" -> A2AMessage_to_dict(x)
      [] x.t = "Envelope" -> A2AEnvelope_to_dict(x)

from_dict(cls, value) ==
    CASE cls = "Part" -> A2APart_from_dict(value)
      [] cls = "A2AMessage" -> A2AMessage_from_dict(value)
      [] cls = "Envelope" -> A2AEnvelope_from_dict(value)

\* how a conversion that may raise ValueError ended
Outcome(x) == IF IsErr(x) THEN Raised(x.v, <<>>) ELSE Returned(x, <<>>)

InitCodec ==
    /\ cfg = [respond_to_group |-> TRUE, respond_to_direct |-> TRUE]
    /\ joined = FALSE
    /\ subs = {}
    /\ handlers = <<>>
    /\ net = {}
    /\ d = Idle
    /\ \E x \in PartInputs \cup MessageInputs \cup EnvelopeInputs \cup MessageTrees
                \cup EnvelopeTrees :
         last = [NoCall EXCEPT !.args = x]

\* cls.from_dict(x.to_dict()) for an instance x of cls
RoundTrip ==
    /\ last.op = "none"
    /\ last.args.t \in {"Part", "A2AMessage", "Envelope"}
    /\ last' = [last EXCEPT !.op = "round_trip",
                            !.res = Outcome(from_dict(last.args.t, to_dict(last.args)))]
    /\ UNCHANGED <<joined, subs, handlers, net, d, cfg>>

\* A2AMessage.from_dict(value)
ParseMessage ==
    /\ last.op = "none"
    /\ last.args \in MessageTrees
    /\ last' = [last EXCEPT !.op = "A2AMessage.from_dict",
                            !.res = Outcome(A2AMessage_from_dict(last.args))]
    /\ UNCHANGED <<joined, subs, handlers, net, d, cfg>>

\* A2AEnvelope.from_dict(value)
ParseEnvelope ==
    /\ last.op = "none"
    /\ last.args \in EnvelopeTrees
    /\ last' = [last EXCEPT !.op = "A2AEnvelope.from_dict",
                            !.res = Outcome(A2AEnvelope_from_dict(last.args))]
    /\ UNCHANGED <<joined, subs, handlers, net, d, cfg>>

NextCodec ==
    \/ RoundTrip
    \/ ParseMessage
    \/ ParseEnvelope

SpecCodec == InitCodec /\ [][NextCodec]_vars

(***************************************************************************)
(* The normalizer of _handle_message (lines 354-427) applied to a topic    *)
(* and a payload drawn from the input sets below: d holds the delivery and *)
(* the normalized message                                                  *)
(***************************************************************************)
NormalizeTopics ==
    { group_topic, direct_topic, OtherTopic,
      <<"rooms", room_id, "direct", "peer">>, <<"rooms", room_id, "direct">> }

\* the parts of the embedded message of an inbound A2A payload
PartsInputs ==
    { <<create_text_part(Str("Ping"))>>,
      <<create_text_part(Str(""))>>,
      <<Blob>>,
      <<Blob, create_text_part(Str("later"))>>,
      <<create_text_part(Str("")), create_text_part(Str("later"))>>,
      <<Part(Str("text"), Map([text |-> Num(1)]), Null), Hello>> }

\* inbound payloads before audience and recipient_id are set
BodyInputs ==
    { Map([sender_id |-> Peer, content |-> Str("Hello!")]) }
    \cup
    { RequestTree(A2AMessage(Str("user"), List(parts), Str("m-ping"), Str("message"),
                             Map([sender_id |-> Peer]), Null, Null, Null, Null),
                  Str("req-1")) : parts \in PartsInputs }

NormalizeInputs ==
    { Map(body.v @@ Tree([audience |-> audience, recipient_id |-> recipient_id]).v) :
        body \in BodyInputs,
        audience \in {Absent, Null, Str("everyone"), Str("direct"), Str("bogus"),
                      Str("DIRECT"), Num(1)},
        recipient_id \in {Absent, Null, agent_id, Str("other"), Str("")} }

InitNormalize ==
    /\ cfg = [respond_to_group |-> TRUE, respond_to_direct |-> TRUE]
    /\ joined = FALSE
    /\ subs = {}
    /\ handlers = <<>>
    /\ net = {}
    /\ last = NoCall
    /\ \E topic \in NormalizeTopics, payload \in NormalizeInputs :
         d = [Idle EXCEPT !.topic = topic, !.payload = payload]

Normalize ==
    /\ d.pc = "idle"
    /\ BeginDispatch(d.topic, d.payload, FALSE)
    /\ UNCHANGED <<joined, subs, handlers, net, last, cfg>>

NextNormalize == Normalize

SpecNormalize == InitNormalize /\ [][NextNormalize]_vars

(***************************************************************************)
(* Two deliveries made by the transport on two threads: each thread runs   *)
(* _handle_message on its own message, and the handler list is fixed.  d   *)
(* holds one dispatch for each thread.                                     *)
(***************************************************************************)
Threads == {"t1", "t2"}

ThreadDeliveries ==
    { [topic |-> direct_topic,
       payload |-> Map([sender_id |-> Peer, content |-> Str("Direct message"),
                        message_id |-> Str("msg-456"), audience |-> Str("direct"),
                        recipient_id |-> agent_id])],
      [topic |-> group_topic,
       payload |-> RequestTree(Ping(Map([sender_id |-> Peer])), Str("req-234"))] }

ThreadResponses == { HandlerRaised, Null, Str("Response"), Pong }

\* a slip in the loop: the two threads advance one iterator
Cursor_shared(ds, t) ==
    IF \A u \in Threads : ds[u].idx <= ds[t].idx THEN ds[t].idx
    ELSE ds[CHOOSE u \in Threads : ds[u].idx > ds[t].idx].idx

\* line 435: each call of _handle_message iterates the list with its own
\* iterator
Cursor(ds, t) == ds[t].idx

InitThreads ==
    /\ cfg = [respond_to_group |-> TRUE, respond_to_direct |-> TRUE]
    /\ joined \in BOOLEAN
    /\ subs = IF joined THEN {group_topic, direct_topic} ELSE {}
    /\ handlers = [i \in 1..MaxHandlers |-> HandlerName(i)]
    /\ net = {}
    /\ d = [t \in Threads |-> Idle]
    /\ last = NoCall

\* the transport calls _handle_message on thread t
ThreadDeliver(t) ==
    /\ d[t].pc = "idle"
    /\ \E m \in ThreadDeliveries :
       \E msg \in {NormalizeInbound(m.topic, m.payload, Uuid1)} :
         d' = [d EXCEPT ![t] = Begun(m.topic, m.payload, FALSE, msg, handlers)]
    /\ UNCHANGED <<joined, subs, handlers, net, last, cfg>>

\* thread t runs one iteration of its handler loop
ThreadInvoke(t) ==
    /\ d[t].pc = "run"
    /\ ~Exhausted(handlers, Cursor(d, t))
    /\ \E response \in ThreadResponses, pubok \in BOOLEAN :
       \E r \in {RespondTo(d[t].msg, response, joined, Uuid1, Uuid2, pubok)} :
         /\ d' = [d EXCEPT ![t] = Invoked(d[t], NextHandler(handlers, Cursor(d, t)),
                                          response, r, joined)]
         /\ net' = Loopbacks(r.calls, subs)
    /\ UNCHANGED <<joined, subs, handlers, last, cfg>>

\* thread t finds the list exhausted and returns
ThreadEnd(t) ==
    /\ d[t].pc = "run"
    /\ Exhausted(handlers, Cursor(d, t))
    /\ d' = [d EXCEPT ![t].pc = "done"]
    /\ UNCHANGED <<joined, subs, handlers, net, last, cfg>>

NextThreads ==
    \/ \E t \in Threads : ThreadDeliver(t)
    \/ \E t \in Threads : ThreadInvoke(t)
    \/ \E t \in Threads : ThreadEnd(t)

SpecThreads == InitThreads /\ [][NextThreads]_vars

(***************************************************************************)
(* send_a2a_request applied by a Joined node to arguments drawn from the   *)
(* input set below.  last.message is the caller's A2AMessage object: what  *)
(* the caller passed before the call, what it holds after it.              *)
(***************************************************************************)
\* a message that has every optional field set
Rich ==
    A2AMessage(Str("agent"), List(<<create_text_part(Str("Pong"))>>), Str("m-rich"),
               Str("message"), Map([sender_id |-> Peer, note |-> Str("old")]),
               List(<<Str("ext-0")>>), Null, Str("task-1"), Str("ctx-1"))

RequestInputs ==
    { [A2AArgs EXCEPT !.audience = "EVERYONE",
                      !.message = message,
                      !.text = IF message = Null THEN Str("hi") ELSE Null,
                      !.request_id = request_id,
                      !.message_metadata = message_metadata,
                      !.extensions = extensions,
                      !.reference_task_ids = reference_task_ids,
                      !.task_id = task_id,
                      !.context_id = context_id,
                      !.message_id = message_id] :
        message \in {Null, Pong, Rich},
        request_id \in {Null, Str("req-42"), Str(""), Num(0), Num(7)},
        message_metadata \in {Null, EmptyMap, Map([note |-> Str("new"), trace |-> Str("t")])},
        extensions \in {Null, List(<<>>), List(<<Str("ext-1")>>)},
        reference_task_ids \in {Null, List(<<Str("task-0")>>)},
        task_id \in {Null, Str("task-9")},
        context_id \in {Null, Str("ctx-9")},
        message_id \in {Null, Str("m-new"), Str("m-pong")} }

\* a slip in with_updates: the fields of self are assigned in place
CallerMessage_inplace(message, constructed) ==
    IF IsNone(message) THEN Null ELSE constructed

\* the caller's message object after lines 315-329: with_updates is
\* dataclasses.replace, which builds a new object, and the merged metadata is
\* a new dict
CallerMessage(message, constructed) == message

InitRequest ==
    /\ cfg = [respond_to_group |-> TRUE, respond_to_direct |-> TRUE]
    /\ joined = TRUE
    /\ subs = {group_topic, direct_topic}
    /\ handlers = <<>>
    /\ net = {}
    /\ d = Idle
    /\ \E a \in RequestInputs :
         last = [op |-> "none", args |-> Map(a), res |-> Returned(Null, <<>>),
                 wasJoined |-> TRUE, message |-> a.message]

CallRequest ==
    /\ last.op = "none"
    /\ \E pubok \in BOOLEAN :
       \E r \in {send_a2a_request(last.args.v, joined, Uuid1, Uuid2, pubok)} :
         /\ last' = [last EXCEPT
                       !.op = "send_a2a_request",
                       !.res = r,
                       !.message = CallerMessage(last.args.v.message,
                                                 ConstructedMessage(last.args.v, <<>>, Uuid1))]
         /\ net' = Loopbacks(r.calls, subs)
    /\ UNCHANGED <<joined, subs, handlers, d, cfg>>

NextRequest == CallRequest

SpecRequest == InitRequest /\ [][NextRequest]_vars

(***************************************************************************)
(* Two Joined nodes, "agent" and "peer", in one room, each with one        *)
(* handler that returns a reply for every message.  The code reads the     *)
(* node's id only to compare it and to write it, so the node "peer" is     *)
(* the node "agent" with the two ids exchanged in what it receives and     *)
(* what it publishes.  net holds the deliveries the transport has still    *)
(* to make, d the number of deliveries it has made (modulo 2) and          *)
(* last.args what the handlers return.                                     *)
(***************************************************************************)
Nodes == {"agent", "peer"}

SwapStr(s) == IF s = "agent" THEN "peer" ELSE IF s = "peer" THEN "agent" ELSE s

RECURSIVE Swap(_)
Swap(x) ==
    CASE x.t = "str" -> Str(SwapStr(x.v))
      [] x.t = "map" -> Map([k \in DOMAIN x.v |-> Swap(x.v[k])])
      [] x.t = "list" -> List([i \in DOMAIN x.v |-> Swap(x.v[i])])
      [] OTHER -> x

\* a payload and a topic as the node n reads or writes them
AsNode(n, x) == IF n = "agent" THEN x ELSE Swap(x)
TopicAsNode(n, topic) ==
    IF n = "agent" THEN topic ELSE [i \in DOMAIN topic |-> SwapStr(topic[i])]

\* the subscriptions of a Joined node n with both participation flags set
SubscriptionsOf(n) == {group_topic, DirectTopicOf(Str(n))}

\* the deliveries the transport owes for a publish on topic
Routed(topic, payload) ==
    { [to |-> k, topic |-> topic, payload |-> payload] :
        k \in {n \in Nodes : topic \in SubscriptionsOf(n)} }

\* the deliveries owed for the completed publishes among the calls of node n
RoutedCalls(n, calls) ==
    UNION { Routed(TopicAsNode(n, calls[i].topic), AsNode(n, calls[i].payload)) :
              i \in {j \in 1..Len(calls) : calls[j].call = "publish" /\ calls[j].ok} }

\* the one message published from outside the two nodes
ExternalMessages ==
    { [topic |-> group_topic,
       payload |-> Map([sender_id |-> Str("ext"), content |-> Str("Hello!"),
                        message_id |-> Str("msg-123"), audience |-> Str("everyone")])],
      [topic |-> direct_topic,
       payload |-> Map([sender_id |-> Str("ext"), content |-> Str("Direct message"),
                        message_id |-> Str("msg-456"), audience |-> Str("direct"),
                        recipient_id |-> agent_id])],
      [topic |-> group_topic,
       payload |-> RequestTree(Ping(Map([sender_id |-> Str("ext")])), Str("req-234"))] }

\* what the handlers return: legacy content, and a JSON-RPC result
RoomResponses ==
    { Str("Response"),
      Map([jsonrpc |-> Str("2.0"), id |-> Str("req-234"),
           result |-> A2AMessage_to_dict(Ping(Null))]) }

InitRoom ==
    /\ cfg = [respond_to_group |-> TRUE, respond_to_direct |-> TRUE]
    /\ joined = [n \in Nodes |-> TRUE]
    /\ subs = [n \in Nodes |-> SubscriptionsOf(n)]
    /\ handlers = <<HandlerName(1)>>
    /\ \E m \in ExternalMessages : net = Routed(m.topic, m.payload)
    /\ d = 0
    /\ \E response \in RoomResponses : last = [NoCall EXCEPT !.args = response]

\* the transport makes one more delivery (d counts them, modulo 2)
Delivered == d' = (d + 1) % 2

\* the transport delivers a message to node n, which drops it before the
\* handler loop
ReceiveDropped(n) ==
    \E m \in net :
      /\ m.to = n
      /\ NormalizeInbound(TopicAsNode(n, m.topic), AsNode(n, m.payload), Uuid1).t = "drop"
      /\ net' = net \ {m}
      /\ Delivered
      /\ UNCHANGED <<joined, subs, handlers, last, cfg>>

\* the transport delivers a message to node n, whose handler returns its
\* reply (last.args); the dispatch runs to its end
ReceiveAndReply(n) ==
    \E m \in net :
      /\ m.to = n
      /\ \E msg \in {NormalizeInbound(TopicAsNode(n, m.topic), AsNode(n, m.payload), Uuid1)} :
           /\ msg.t # "drop"
           /\ \E r \in {RespondTo(msg, last.args, joined[n], Uuid1, Uuid2, TRUE)} :
                net' = (net \ {m}) \cup RoutedCalls(n, r.calls)
      /\ Delivered
      /\ UNCHANGED <<joined, subs, handlers, last, cfg>>

NextRoom ==
    \/ \E n \in Nodes : ReceiveDropped(n)
    \/ \E n \in Nodes : ReceiveAndReply(n)

\* a delivery the transport owes is made: a step of NextRoom, which can be
\* taken exactly when net is not empty
Owed == net # {} /\ Delivered

\* the transport goes on delivering while it owes a delivery
SpecRoom == InitRoom /\ [][NextRoom]_vars /\ WF_d(Owed)

(***************************************************************************)
(* Properties                                                              *)
(***************************************************************************)
\* the delivery in d was accepted: the normalizer built a Message from it
Accepted == d.pc \in {"run", "done"} /\ d.msg.t = "Message"

\* d.step holds an iteration of the handler loop
Stepped == d.pc \in {"run", "done"} /\ d.idx > 0

\* the payload takes branch A of the normalizer: an envelope with a message
IsBranchA(payload) ==
    /\ IsDict(payload)
    /\ Get(payload, "jsonrpc") = Str("2.0")
    /\ LET e == A2AEnvelope_from_dict(payload)
       IN Truthy(A2AEnvelope_message(e))

\* the sender id a payload resolves to
ResolvedSender(payload) ==
    IF IsBranchA(payload)
    THEN derive_sender_id_from_message(A2AEnvelope_message(A2AEnvelope_from_dict(payload)))
    ELSE Get(payload, "sender_id")

\* rooms/{room}/group for EVERYONE, rooms/{room}/direct/{sender} for DIRECT
ExpectedTopic(msg) ==
    IF msg.v.audience = "EVERYONE" THEN <<"rooms", room_id, "group">>
    ELSE <<"rooms", room_id, "direct", PyStr(msg.v.sender_id)>>

\* C1 (as claimed): a handler is never invoked for a delivery of a payload
\* the node itself published.
C1_OwnPublishNeverHandled == d.own => d.invoked = <<>>

\* C2: a delivery whose resolved sender id (legacy sender_id, or the derived
\* sender of the embedded A2A message) is the local node id ends at once, with
\* no handler invoked and no publish issued.
C2_SelfSuppressed ==
    (d.pc # "idle" /\ IsDict(d.payload) /\ ResolvedSender(d.payload) = agent_id)
      => (d.pc = "done" /\ d.invoked = <<>> /\ d.npub = 0)

C2_Witness ==
    /\ d.pc = "done"
    /\ IsBranchA(d.payload)
    /\ ResolvedSender(d.payload) = agent_id
    /\ Len(handlers) > 0

\* C3: for an accepted message the handlers invoked so far are the first
\* handlers of the list, in list order, whatever they returned, and the
\* dispatch ends only when every registered handler was invoked once.
C3_AllHandlersInOrder ==
    Accepted => /\ d.invoked = SubSeq(handlers, 1, d.idx)
                /\ d.pc = "done" => d.invoked = handlers

C3_Witness ==
    /\ Accepted
    /\ d.pc = "done"
    /\ Len(d.invoked) = 2
    /\ d.npub = 2

\* C4: an exception of a handler, or of the translation or publish of its
\* response, never leaves _handle_message, and the handlers after it are
\* still invoked.
C4_ExceptionsIsolated ==
    /\ ~d.escaped
    /\ (Accepted /\ d.pc = "done" /\ d.ncaught > 0)
         => (d.idx = Len(handlers) /\ Len(d.invoked) = Len(handlers))

C4_Witness ==
    /\ Accepted
    /\ d.pc = "done"
    /\ d.ncaught = 1
    /\ Len(d.invoked) = 2
    /\ IsNone(d.step.exc)

\* a payload that is no mapping, or a legacy mapping without sender_id or
\* without content
Malformed(payload) ==
    \/ ~IsDict(payload)
    \/ /\ ~IsBranchA(payload)
       /\ ("sender_id" \notin DOMAIN payload.v \/ "content" \notin DOMAIN payload.v)

\* C5: the delivery of a malformed payload ends at once and normally: no
\* handler is invoked, nothing is published, and the node's state (joined,
\* handlers, subscriptions) is as before.
C5_MalformedDropped ==
    [][(d' # d /\ d'.pc # "idle" /\ Malformed(d'.payload))
         => /\ d'.pc = "done" /\ d'.invoked = <<>> /\ d'.npub = 0 /\ ~d'.escaped
            /\ UNCHANGED <<joined, handlers, subs>>]_vars

C5_Witness ==
    /\ d.pc = "done"
    /\ IsDict(d.payload)
    /\ Malformed(d.payload)
    /\ "sender_id" \in DOMAIN d.payload.v
    /\ Len(handlers) > 0

\* C6 (as claimed): when the single handler answers an A2A request that
\* arrived on the node's direct topic with an A2A message, one publish goes
\* to the sender's direct topic and carries a JSON-RPC result with the id of
\* the request and the tree of the message.  (Stated for a joined node only.)
C6_ReplyIsResultWithRequestId ==
    (/\ Accepted /\ d.idx = 1 /\ Len(handlers) = 1
     /\ d.topic = direct_topic
     /\ IsBranchA(d.payload) /\ "method" \in DOMAIN d.payload.v
     /\ d.step.response.t = "A2AMessage"
     /\ d.step.wasJoined)
      => /\ Len(d.step.calls) = 1
         /\ d.step.calls[1].topic = ExpectedTopic(d.msg)
         /\ d.step.calls[1].payload =
              Map([jsonrpc |-> Str("2.0"), id |-> Get(d.payload, "id"),
                   result |-> A2AMessage_to_dict(d.step.response)])

\* a returned value that is treated as legacy content
IsLegacyContent(response) ==
    /\ response.t \notin {"error", "null", "Request", "A2AMessage"}
    /\ ~(IsDict(response) /\ Get(response, "jsonrpc") = Str("2.0"))

\* the iteration in d.step issued exactly one publish, of the legacy chat
\* reply to the inbound message
LegacyReplyIssued ==
    /\ Len(d.step.calls) = 1
    /\ LET c == d.step.calls[1]
           direct == d.msg.v.audience = "DIRECT"
       IN /\ c.call = "publish"
          /\ c.topic = ExpectedTopic(d.msg)
          /\ IsDict(c.payload)
          /\ Get(c.payload, "sender_id") = agent_id
          /\ Get(c.payload, "content") = d.step.response
          /\ Get(c.payload, "in_reply_to") = d.msg.v.message_id
          /\ Get(c.payload, "audience") = Str(IF direct THEN "direct" ELSE "everyone")
          /\ direct => Get(c.payload, "recipient_id") = d.msg.v.sender_id
          /\ ~is_a2a_envelope(c.payload)

\* C7 (as claimed): while Joined, a returned value that is legacy content is
\* published as exactly one legacy chat reply.
C7_LegacyReplyAlways ==
    (Stepped /\ d.step.wasJoined /\ IsLegacyContent(d.step.response))
      => LegacyReplyIssued

\* C7 (amended): while Joined, a returned value that is legacy content is
\* published as exactly one legacy chat reply, unless the inbound message is
\* DIRECT and its sender id is empty or null: then nothing is published.
C7_LegacyReplyUnlessNoSender ==
    (Stepped /\ d.step.wasJoined /\ IsLegacyContent(d.step.response))
      => IF d.msg.v.audience = "DIRECT" /\ ~Truthy(d.msg.v.sender_id)
         THEN d.step.calls = <<>>
         ELSE LegacyReplyIssued

C7_Witness ==
    /\ Stepped /\ d.step.wasJoined /\ IsLegacyContent(d.step.response)
    /\ d.msg.v.audience = "DIRECT"
    /\ Truthy(d.msg.v.sender_id)
    /\ LegacyReplyIssued

\* C8: a returned ready-made request is published exactly once, its tree
\* unchanged, on the group topic for an EVERYONE message and on the original
\* sender's direct topic for a DIRECT one.
C8_RequestVerbatim ==
    (Stepped /\ d.step.response.t = "Request")
      => /\ Len(d.step.calls) = 1
         /\ d.step.calls[1].call = "publish"
         /\ d.step.calls[1].topic = ExpectedTopic(d.msg)
         /\ d.step.calls[1].payload = SendMessageRequest_to_dict(d.step.response)

C8_Witness ==
    /\ Stepped /\ d.step.response.t = "Request"
    /\ d.msg.v.audience = "DIRECT"
    /\ Len(d.step.calls) = 1

\* C9: a returned mapping with jsonrpc "2.0" is published exactly once and as
\* it is, on the mirrored topic.
C9_EnvelopeForwarded ==
    (Stepped /\ IsDict(d.step.response) /\ Get(d.step.response, "jsonrpc") = Str("2.0"))
      => /\ Len(d.step.calls) = 1
         /\ d.step.calls[1].call = "publish"
         /\ d.step.calls[1].topic = ExpectedTopic(d.msg)
         /\ d.step.calls[1].payload = d.step.response

C9_Witness ==
    /\ Stepped /\ IsDict(d.step.response)
    /\ Get(d.step.response, "jsonrpc") = Str("2.0")
    /\ d.msg.v.audience = "EVERYONE"
    /\ Len(d.step.calls) = 1

\* C10: a handler invocation issues at most one publish, and none when the
\* handler returned nothing, so a dispatch issues at most as many publishes
\* as handlers were invoked, which are at most the registered ones.
C10_AtMostOnePublishPerHandler ==
    /\ Len(d.step.calls) <= 1
    /\ (Stepped /\ IsNone(d.step.response)) => d.step.calls = <<>>
    /\ d.npub <= Len(d.invoked)
    /\ Accepted => d.npub <= Len(handlers)

C10_Witness ==
    /\ Accepted
    /\ d.pc = "done"
    /\ Len(d.invoked) = 2
    /\ d.npub = 1
    /\ IsNone(d.step.response)

\* the latest call was a send_message or a send_a2a_request
IsSend(call) == call.op \in {"send_message", "send_a2a_request"}

\* C11: a send_message or send_a2a_request made while the node is Unjoined
\* fails with ConnectionError whatever its arguments, issues no publish and
\* leaves the node Unjoined.
C11_UnjoinedSendRefused ==
    (IsSend(last) /\ ~last.wasJoined)
      => /\ last.res.outcome = "raise"
         /\ last.res.value = Err("ConnectionError")
         /\ last.res.calls = <<>>
         /\ net = {}
         /\ ~joined

C11_Witness ==
    /\ last.op = "send_a2a_request"
    /\ ~last.wasJoined
    /\ last.args.v \in InvalidA2AInputs
    /\ last.res.value = Err("ConnectionError")

\* C12: while Joined, a send_message or send_a2a_request with audience DIRECT
\* and a recipient id that is absent or empty raises ValueError to the caller
\* and issues no publish.
C12_DirectNeedsRecipient ==
    (/\ IsSend(last) /\ last.wasJoined
     /\ last.args.v.audience = "DIRECT"
     /\ last.args.v.recipient_id \in {Null, Str("")})
      => /\ last.res.outcome = "raise"
         /\ last.res.value = Err("ValueError")
         /\ last.res.calls = <<>>

C12_Witness ==
    /\ last.op = "send_message"
    /\ last.wasJoined
    /\ last.args.v.audience = "DIRECT"
    /\ last.args.v.recipient_id = Str("")
    /\ last.res.value = Err("ValueError")

\* the arguments C13 lists as invalid
InvalidA2AArgs(a) ==
    \/ a.role \notin {Str("user"), Str("agent")}
    \/ a.message_metadata.t \notin {"null", "map"}
    \/ a.request_metadata.t \notin {"null", "map"}
    \/ a.extensions.t = "list" /\ \E i \in 1..Len(a.extensions.v) : a.extensions.v[i].t # "str"
    \/ a.reference_task_ids.t = "list"
         /\ \E i \in 1..Len(a.reference_task_ids.v) : a.reference_task_ids.v[i].t # "str"
    \/ a.parts.t = "list" /\ \E i \in 1..Len(a.parts.v) : a.parts.v[i].t # "Part"
    \/ /\ a.message.t = "null" /\ a.text.t = "null"
       /\ (a.parts.t = "null" \/ a.parts.v = <<>>)

\* C13: while Joined, send_a2a_request with an unsupported role, a metadata
\* argument that is no mapping, a non-string extension or reference task id,
\* a part that is no Part, or none of message, parts and text raises
\* ValueError to the caller and issues no publish.
C13_InvalidArgsRejected ==
    (last.op = "send_a2a_request" /\ last.wasJoined /\ InvalidA2AArgs(last.args.v))
      => /\ last.res.outcome = "raise"
         /\ last.res.value = Err("ValueError")
         /\ last.res.calls = <<>>

C13_Witness ==
    /\ last.op = "send_a2a_request"
    /\ last.wasJoined
    /\ last.args.v.extensions = List(<<Str("ext-1"), Num(1)>>)
    /\ last.res.value = Err("ValueError")

\* the send recorded in last succeeded: send_message returned the message
\* id, send_a2a_request returned
SendSucceeded ==
    /\ IsSend(last)
    /\ last.res.outcome = "return"
    /\ last.op = "send_message" => ~IsNone(last.res.value)

\* the trees of the parts a send_a2a_request call gives: parts, then text
GivenParts(a) ==
    (IF a.parts.t = "null" THEN <<>>
     ELSE [i \in 1..Len(a.parts.v) |->
             Map(a.parts.v[i].v.data.v @@ ("kind" :> a.parts.v[i].v.kind))])
    \o (IF a.text.t = "null" THEN <<>>
        ELSE <<Map([kind |-> Str("text"), text |-> a.text])>>)

\* C14: while Joined, a successful send_message or send_a2a_request issues
\* exactly one publish, on rooms/{room}/group for EVERYONE and on
\* rooms/{room}/direct/{recipient} for DIRECT; the payload of
\* send_a2a_request has jsonrpc "2.0", method "message/send" and, where the
\* message is built from parts and text, params.message.parts holding them.
C14_OnePublishOnTopic ==
    (SendSucceeded /\ last.wasJoined)
      => /\ Len(last.res.calls) = 1
         /\ LET c == last.res.calls[1]
                a == last.args.v
            IN /\ c.call = "publish" /\ c.ok
               /\ c.topic = IF a.audience = "EVERYONE"
                            THEN <<"rooms", room_id, "group">>
                            ELSE <<"rooms", room_id, "direct", a.recipient_id.v>>
               /\ last.op = "send_a2a_request"
                    => /\ c.payload.v.jsonrpc = Str("2.0")
                       /\ c.payload.v.method = Str("message/send")
                       /\ a.message.t = "null"
                            => c.payload.v.params.v.message.v.parts = List(GivenParts(a))

C14_Witness ==
    /\ SendSucceeded /\ last.wasJoined
    /\ last.op = "send_a2a_request"
    /\ last.args.v.audience = "DIRECT"
    /\ last.args.v.text = Str("second")
    /\ Len(last.args.v.parts.v) = 1
    /\ Len(last.res.calls) = 1

\* C15: a join made while the node is Joined returns True, makes no
\* transport call (no connect, no subscribe) and leaves the node Joined.
C15_RejoinIsNoOp ==
    (last.op = "join" /\ last.wasJoined)
      => /\ last.res = Returned(Bool(TRUE), <<>>)
         /\ joined

C15_Witness ==
    /\ last.op = "join" /\ last.wasJoined
    /\ joined
    /\ subs # {}

\* C16: a leave made while the node is Unjoined returns True, makes no
\* transport call (no unsubscribe, no disconnect) and leaves the node
\* Unjoined.
C16_LeaveUnjoinedIsNoOp ==
    (last.op = "leave" /\ ~last.wasJoined)
      => /\ last.res = Returned(Bool(TRUE), <<>>)
         /\ ~joined

C16_Witness ==
    /\ last.op = "leave" /\ ~last.wasJoined
    /\ ~joined
    /\ cfg.respond_to_group

\* the subscribe call join makes for a topic
SubscribeCall(topic) ==
    [call |-> "subscribe", topic |-> topic, callback |-> "_handle_message",
     qos |-> "AT_LEAST_ONCE", ok |-> TRUE]

\* C17: a join from Unjoined that returns has called connect, then subscribe
\* for the group topic iff respond_to_group and then for the node's direct
\* topic iff respond_to_direct, each with the dispatch callback and the
\* node's qos, and the node is Joined; the node is Joined only if the join
\* returned.
C17_JoinSubscribesEnabled ==
    (last.op = "join" /\ ~last.wasJoined)
      => /\ joined <=> last.res.outcome = "return"
         /\ last.res.outcome = "return"
              => /\ last.res.value = Bool(TRUE)
                 /\ last.res.calls =
                      <<[call |-> "connect", ok |-> TRUE]>>
                        \o (IF cfg.respond_to_group
                            THEN <<SubscribeCall(<<"rooms", room_id, "group">>)>>
                            ELSE <<>>)
                        \o (IF cfg.respond_to_direct
                            THEN <<SubscribeCall(<<"rooms", room_id, "direct", "agent">>)>>
                            ELSE <<>>)

C17_Witness ==
    /\ last.op = "join" /\ ~last.wasJoined
    /\ last.res.outcome = "return"
    /\ cfg.respond_to_direct /\ ~cfg.respond_to_group
    /\ joined

PublishedSenderId(payload) ==
    LET message == payload.v.params.v.message
    IN IF "metadata" \in DOMAIN message.v THEN Get(message.v.metadata, "senderId")
       ELSE Null

\* every publish among calls carries the node's id as metadata.senderId
AllStamped(calls) ==
    \A i \in 1..Len(calls) : PublishedSenderId(calls[i].payload) = agent_id

\* C19 (as claimed): every A2A request send_a2a_request publishes, for a
\* call of the method and for the reply built from an A2A message a handler
\* returned, carries message metadata whose senderId is the node's agent id.
C19_RequestsCarrySenderId ==
    /\ last.op = "send_a2a_request" => AllStamped(last.res.calls)
    /\ (Stepped /\ d.step.response.t = "A2AMessage") => AllStamped(d.step.calls)

\* metadata key k of message m holds a string that is non-empty after trimming
HasIdentity(m, k) ==
    /\ m.v.metadata.t = "map"
    /\ k \in DOMAIN m.v.metadata.v
    /\ m.v.metadata.v[k].t = "str"
    /\ m.v.metadata.v[k].v \notin {"", " ", "  "}

\* the explicit identity of m: the value of the first of the six keys that
\* holds one, Null if none does
ExplicitIdentity(m) ==
    IF HasIdentity(m, "sender_id") THEN m.v.metadata.v["sender_id"]
    ELSE IF HasIdentity(m, "senderId") THEN m.v.metadata.v["senderId"]
    ELSE IF HasIdentity(m, "agent_id") THEN m.v.metadata.v["agent_id"]
    ELSE IF HasIdentity(m, "agentId") THEN m.v.metadata.v["agentId"]
    ELSE IF HasIdentity(m, "authorId") THEN m.v.metadata.v["authorId"]
    ELSE IF HasIdentity(m, "author_id") THEN m.v.metadata.v["author_id"]
    ELSE Null

Derived == last.op = "derive_sender_id_from_message"

\* C20 (as claimed): derive_sender_id returns a string: the explicit identity
\* of the metadata if there is one, else contextId if present, else taskId if
\* present, else "a2a:" + role.
C20_DeriveContextIfPresent ==
    Derived =>
      /\ last.res.outcome = "return"
      /\ last.res.value.t = "str"
      /\ last.res.value =
           (IF ExplicitIdentity(last.args) # Null THEN ExplicitIdentity(last.args)
            ELSE IF last.args.v.context_id # Null THEN last.args.v.context_id
            ELSE IF last.args.v.task_id # Null THEN last.args.v.task_id
            ELSE Str("a2a:" \o last.args.v.role.v))

\* C20 (amended): derive_sender_id returns a string: the explicit identity
\* of the metadata if there is one, else contextId if present and not empty,
\* else taskId if present and not empty, else "a2a:" + role.
C20_DeriveContextIfNonEmpty ==
    Derived =>
      /\ last.res.outcome = "return"
      /\ last.res.value.t = "str"
      /\ last.res.value =
           (IF ExplicitIdentity(last.args) # Null THEN ExplicitIdentity(last.args)
            ELSE IF last.args.v.context_id \notin {Null, Str("")}
            THEN last.args.v.context_id
            ELSE IF last.args.v.task_id \notin {Null, Str("")} THEN last.args.v.task_id
            ELSE Str("a2a:" \o last.args.v.role.v))

C20_Witness ==
    /\ Derived
    /\ last.args.v.metadata.t = "map"
    /\ Get(last.args.v.metadata, "senderId") = Str("  ")
    /\ Get(last.args.v.metadata, "authorId") = Str("id-authorId")
    /\ last.args.v.context_id = Str("ctx-1")
    /\ last.res.value = Str("id-authorId")

\* the fields of a Part, Message or Envelope that the data model names: all
\* but the raw tree an Envelope keeps
Fields(x) ==
    IF x.t = "Envelope"
    THEN [k \in DOMAIN x.v \ {"raw"} |-> x.v[k]]
    ELSE x.v

\* C21 (as claimed): from_dict(to_dict(x)) returns a value of the class of x
\* that equals x field for field, for every Part, Message and Envelope x of
\* the input sets.
C21_RoundTripIsIdentity ==
    last.op = "round_trip"
      => /\ last.res.outcome = "return"
         /\ last.res.value.t = last.args.t
         /\ Fields(last.res.value) = Fields(last.args)

\* key k of the mapping tree holds a value (JSON null counts as none)
Holds(tree, k) == k \in DOMAIN tree.v /\ tree.v[k].t # "null"

\* the tree of a part A2APart.from_dict accepts
ValidPartTree(x) == x.t = "map" /\ "kind" \in DOMAIN x.v /\ x.v["kind"].t = "str"

\* the message id of a tree is a string: messageId, or its alias message_id
\* where messageId is left out
IdIsString(tree) ==
    IF Holds(tree, "messageId") THEN tree.v["messageId"].t = "str"
    ELSE Holds(tree, "message_id") /\ tree.v["message_id"].t = "str"

\* the inputs C22 lists as failing
InvalidMessageTree(tree) ==
    \/ tree.t # "map"
    \/ ~Holds(tree, "role")
    \/ tree.v["role"] \notin {Str("user"), Str("agent")}
    \/ ~Holds(tree, "parts")
    \/ tree.v["parts"].t # "list"
    \/ tree.v["parts"].v = <<>>
    \/ \E i \in 1..Len(tree.v["parts"].v) : ~ValidPartTree(tree.v["parts"].v[i])
    \/ ~IdIsString(tree)

\* C22 (as claimed): A2AMessage.from_dict raises ValueError exactly for the
\* inputs that are no mapping, have a role other than user and agent, have
\* parts missing, empty or with an invalid part, or have a message id that
\* is no string; for every other input it returns a Message whose optional
\* fields are well typed or absent.
C22_FromTreeFailsExactly ==
    last.op = "A2AMessage.from_dict"
      => /\ last.res.outcome = "raise" <=> InvalidMessageTree(last.args)
         /\ last.res.outcome = "raise" => last.res.value = Err("ValueError")
         /\ last.res.outcome = "return"
              => /\ last.res.value.t = "A2AMessage"
                 /\ last.res.value.v.metadata.t \in {"map", "null"}
                 /\ last.res.value.v.extensions.t \in {"list", "null"}
                 /\ last.res.value.v.reference_task_ids.t \in {"list", "null"}
                 /\ last.res.value.v.task_id.t \in {"str", "null"}
                 /\ last.res.value.v.context_id.t \in {"str", "null"}

\* the value of key k of a mapping tree, Null where the key is missing
Field(tree, k) == IF k \in DOMAIN tree.v THEN tree.v[k] ELSE Null

\* the configuration of a params tree is left out or holds an integer (or
\* no) historyLength and a boolean (or no) blocking
ValidConfiguration(params) ==
    Field(params, "configuration").t = "map"
      => /\ Field(Field(params, "configuration"), "historyLength").t
              \in {"null", "num", "bool"}
         /\ Field(Field(params, "configuration"), "blocking").t \in {"null", "bool"}

\* the params of an envelope tree can be parsed
ParsableParams(tree) ==
    /\ Field(tree, "params").t = "map"
    /\ ~InvalidMessageTree(Field(Field(tree, "params"), "message"))
    /\ ValidConfiguration(Field(tree, "params"))

C24_BadConfigurationDropped ==
    (/\ d.pc # "idle"
     /\ IsDict(d.payload)
     /\ Field(d.payload, "jsonrpc") = Str("2.0")
     /\ Field(d.payload, "params").t = "map"
     /\ ~InvalidMessageTree(Field(Field(d.payload, "params"), "message"))
     /\ ~ValidConfiguration(Field(d.payload, "params")))
      => /\ Accepted
         /\ d.msg.v.content = Str("Ping")
         /\ d.pc = "done" => d.invoked = handlers

\* the topic starts with rooms/{room}/direct/
OnDirectTopic(topic) ==
    Len(topic) >= 4 /\ topic[1] = "rooms" /\ topic[2] = room_id /\ topic[3] = "direct"

\* C25: the audience of a normalized message is the payload's audience
\* field where that is "everyone" or "direct", whatever the topic; for an
\* absent, non-string or unrecognized value it is DIRECT if the topic starts
\* with rooms/{room}/direct/ and EVERYONE otherwise.
C25_AudienceDetected ==
    Accepted
      => d.msg.v.audience =
           (IF Field(d.payload, "audience") = Str("everyone") THEN "EVERYONE"
            ELSE IF Field(d.payload, "audience") = Str("direct") THEN "DIRECT"
            ELSE IF OnDirectTopic(d.topic) THEN "DIRECT"
            ELSE "EVERYONE")

C25_Witness ==
    /\ Accepted
    /\ Field(d.payload, "audience") = Str("bogus")
    /\ d.topic = <<"rooms", "other", "direct", "agent">>
    /\ d.msg.v.audience = "EVERYONE"

\* C26: the recipient id of a message normalized with audience DIRECT is the
\* payload's recipient_id where it holds one, and the node's own id where
\* it holds none.
C26_RecipientResolved ==
    (Accepted /\ d.msg.v.audience = "DIRECT")
      => d.msg.v.recipient_id =
           (IF Holds(d.payload, "recipient_id") THEN d.payload.v["recipient_id"]
            ELSE Str("agent"))

C26_Witness ==
    /\ Accepted /\ d.msg.v.audience = "DIRECT"
    /\ Field(d.payload, "recipient_id") = Str("other")
    /\ d.topic = <<"rooms", room_id, "group">>
    /\ d.msg.v.recipient_id = Str("other")

\* the parts of the embedded message of a request payload whose text is a
\* string
TextParts(payload) ==
    LET parts == payload.v["params"].v["message"].v["parts"].v
    IN {i \in 1..Len(parts) : Field(parts[i], "text").t = "str"}

\* C27 (as claimed): the content of a message normalized from an A2A request
\* is the text of the first part of the embedded message that has a string
\* text, the empty string included, and the tree of the embedded message
\* only if no part has one.
C27_ContentIsPrimaryText ==
    (Accepted /\ IsBranchA(d.payload) /\ "params" \in DOMAIN d.payload.v)
      => LET parts == d.payload.v["params"].v["message"].v["parts"].v
             texts == TextParts(d.payload)
         IN d.msg.v.content =
              (IF texts = {} THEN d.payload.v["params"].v["message"]
               ELSE parts[CHOOSE i \in texts : \A j \in texts : i <= j].v["text"])

\* C28: the handler list changes only by add_message_handler appending one
\* handler at its end: a step that changes the list keeps the handlers it
\* had, in their order, is not a step of join, leave, a send or a dispatch
\* (the membership, the subscriptions, the published messages and a running
\* dispatch are as before), and no step removes or reorders handlers.
C28_HandlersOnlyAppended ==
    [][handlers' # handlers
         => /\ Len(handlers') = Len(handlers) + 1
            /\ SubSeq(handlers', 1, Len(handlers)) = handlers
            /\ joined' = joined /\ subs' = subs /\ net' = net
            /\ d' = Forget(d)]_vars

C28_Witness ==
    /\ handlers = <<HandlerName(1), HandlerName(2)>>
    /\ joined
    /\ d.pc = "done" /\ d.idx = 2
    /\ net # {}

\* the dispatch of thread t has a message that passed the normalizer
AcceptedOn(t) == d[t].pc \in {"run", "done"} /\ d[t].msg.t = "Message"

\* C29: with a fixed handler list and two deliveries running on two
\* threads, under every interleaving the handlers invoked so far for each
\* message are the first handlers of the list in registration order, each
\* once, and a dispatch ends only when every handler was invoked for its
\* message.
C29_EachMessageAllHandlersInOrder ==
    \A t \in Threads :
      AcceptedOn(t) => /\ d[t].invoked = SubSeq(handlers, 1, d[t].idx)
                       /\ d[t].pc = "done" => d[t].invoked = handlers

\* the two dispatches are in flight together, each with one handler invoked,
\* and the second thread has made the later publish
C29_Witness ==
    /\ \A t \in Threads : AcceptedOn(t) /\ d[t].pc = "run" /\ d[t].idx = 1
    /\ d["t1"].msg # d["t2"].msg
    /\ d["t1"].npub = 1 /\ d["t2"].npub = 1

\* C30 (as claimed): no publish call is made while the node is Unjoined,
\* neither by a send_message or send_a2a_request nor by the translation of a
\* handler's response in a delivery that runs while the node is Unjoined,
\* whether the handler returned a ready-made request, an A2A message, an
\* envelope mapping or legacy content.
C30_NoPublishWhileUnjoined ==
    /\ (IsSend(last) /\ ~last.wasJoined) => last.res.calls = <<>>
    /\ (Stepped /\ ~d.step.wasJoined) => d.step.calls = <<>>

\* the transport calls a leave of a Joined node sets out to make, in order
LeavePlan ==
    (IF cfg.respond_to_group
     THEN <<[call |-> "unsubscribe", topic |-> <<"rooms", room_id, "group">>]>>
     ELSE <<>>)
    \o (IF cfg.respond_to_direct
        THEN <<[call |-> "unsubscribe", topic |-> <<"rooms", room_id, "direct", "agent">>]>>
        ELSE <<>>)
    \o <<[call |-> "disconnect"]>>

\* some call of calls raised
SomeFailed(calls) == \E i \in 1..Len(calls) : ~calls[i].ok

\* C31: a leave of a Joined node in which an unsubscribe or the disconnect
\* fails returns False without raising and the node stays Joined; every
\* leave of a Joined node, one made after a failed leave included, starts the
\* unsubscribe-and-disconnect sequence from its first call.
C31_FailedLeaveStaysJoined ==
    (last.op = "leave" /\ last.wasJoined)
      => /\ Len(last.res.calls) \in 1..Len(LeavePlan)
         /\ \A i \in 1..Len(last.res.calls) :
              /\ last.res.calls[i].call = LeavePlan[i].call
              /\ LeavePlan[i].call = "unsubscribe"
                   => last.res.calls[i].topic = LeavePlan[i].topic
         /\ SomeFailed(last.res.calls)
              => /\ last.res.outcome = "return"
                 /\ last.res.value = Bool(FALSE)
                 /\ joined
         /\ ~SomeFailed(last.res.calls) => Len(last.res.calls) = Len(LeavePlan)

\* a leave made after a leave that failed at the second unsubscribe: the
\* group topic is already unsubscribed, and the leave starts with it again
C31_Witness ==
    /\ last.op = "leave" /\ last.wasJoined
    /\ cfg.respond_to_group /\ cfg.respond_to_direct
    /\ subs = {<<"rooms", room_id, "direct", "agent">>}
    /\ last.res.calls = <<[call |-> "unsubscribe", topic |-> <<"rooms", room_id, "group">>,
                           ok |-> FALSE]>>
    /\ last.res.value = Bool(FALSE)
    /\ joined

\* C32: a join of an Unjoined node in which connect or a subscribe fails
\* raises that failure to the caller, makes no further transport call and
\* leaves the node Unjoined; the join leaves the node Joined only if connect
\* and the subscription of every enabled topic completed in it.
C32_FailedJoinStaysUnjoined ==
    (last.op = "join" /\ ~last.wasJoined)
      => /\ SomeFailed(last.res.calls)
              => /\ last.res.outcome = "raise"
                 /\ last.res.value = Err("TransportError")
                 /\ ~last.res.calls[Len(last.res.calls)].ok
                 /\ ~joined
         /\ joined
              => /\ ~SomeFailed(last.res.calls)
                 /\ last.res.calls[1].call = "connect"
                 /\ cfg.respond_to_group
                      => \E i \in 2..Len(last.res.calls) :
                           /\ last.res.calls[i].call = "subscribe"
                           /\ last.res.calls[i].topic = <<"rooms", room_id, "group">>
                 /\ cfg.respond_to_direct
                      => \E i \in 2..Len(last.res.calls) :
                           /\ last.res.calls[i].call = "subscribe"
                           /\ last.res.calls[i].topic = <<"rooms", room_id, "direct", "agent">>

\* the subscription of the direct topic failed after that of the group topic
C32_Witness ==
    /\ last.op = "join" /\ ~last.wasJoined
    /\ last.res.outcome = "raise"
    /\ Len(last.res.calls) = 3
    /\ subs = {<<"rooms", room_id, "group">>}
    /\ ~joined

\* C33: a send_message made while Joined with valid arguments never raises:
\* it makes one publish call and returns the generated message id, which is
\* the message_id of the published payload, if and only if the publish
\* completed, and None if the publish raised; the node stays Joined.
C33_SendMessageNeverRaises ==
    (/\ last.op = "send_message" /\ last.wasJoined
     /\ ~(last.args.v.audience = "DIRECT" /\ last.args.v.recipient_id \in {Null, Str("")}))
      => /\ last.res.outcome = "return"
         /\ Len(last.res.calls) = 1
         /\ last.res.calls[1].call = "publish"
         /\ last.res.calls[1].ok
              => /\ last.res.value.t = "str"
                 /\ last.res.value = last.res.calls[1].payload.v.message_id
         /\ ~last.res.calls[1].ok => last.res.value = Null
         /\ joined

C33_Witness ==
    /\ last.op = "send_message" /\ last.wasJoined
    /\ last.args.v.audience = "DIRECT"
    /\ Len(last.res.calls) = 1 /\ ~last.res.calls[1].ok
    /\ last.res = Returned(Null, last.res.calls)
    /\ joined

\* C34: every Message a handler was invoked with has audience DIRECT if and
\* only if its recipient id is not None, and a sender id that differs from
\* the node's own id.
C34_MessageWellFormed ==
    (Stepped /\ Accepted)
      => /\ d.msg.v.audience = "DIRECT" <=> d.msg.v.recipient_id # Null
         /\ d.msg.v.audience \in {"DIRECT", "EVERYONE"}
         /\ d.msg.v.sender_id # Str("agent")

C34_Witness ==
    /\ Stepped /\ Accepted
    /\ d.msg.v.audience = "DIRECT"
    /\ "recipient_id" \notin DOMAIN d.payload.v
    /\ d.msg.v.recipient_id = Str("agent")
    /\ d.msg.v.sender_id = Null

\* C35 (as claimed): for every request id the caller supplies, 0 and the
\* empty string included, the id of the published envelope is the supplied
\* id and so is the value returned; an id is generated only when none is
\* supplied.
C35_SuppliedRequestIdKept ==
    (last.op = "send_a2a_request" /\ last.res.calls # <<>>)
      => LET request_id == last.args.v.request_id
             id == last.res.calls[1].payload.v.id
         IN /\ request_id # Null => id = request_id
            /\ request_id = Null => id = Uuid2
            /\ last.res.calls[1].ok => last.res.value = id

\* new merged over old: the keys of both, new winning where both have a key
MergedOver(new, old) ==
    [k \in DOMAIN new \cup DOMAIN old |-> IF k \in DOMAIN new THEN new[k] ELSE old[k]]

\* the message the overrides of a describe, built from the given message m
Overridden(m, a) ==
    [role |-> m.role, parts |-> m.parts, kind |-> m.kind,
     message_id |-> IF a.message_id = Null THEN m.message_id ELSE a.message_id,
     metadata |-> IF a.message_metadata \in {Null, EmptyMap} THEN m.metadata
                  ELSE Map(MergedOver(a.message_metadata.v,
                                      IF m.metadata = Null THEN EmptyFcn
                                      ELSE m.metadata.v)),
     extensions |-> IF a.extensions = Null THEN m.extensions ELSE a.extensions,
     reference_task_ids |-> IF a.reference_task_ids = Null THEN m.reference_task_ids
                            ELSE a.reference_task_ids,
     task_id |-> IF a.task_id = Null THEN m.task_id ELSE a.task_id,
     context_id |-> IF a.context_id = Null THEN m.context_id ELSE a.context_id]

\* no override is given in a
NoOverride(a) ==
    /\ a.message_metadata \in {Null, EmptyMap}
    /\ a.extensions = Null /\ a.reference_task_ids = Null
    /\ a.task_id = Null /\ a.context_id = Null /\ a.message_id = Null

\* C37: a send_a2a_request that is given a message leaves the caller's
\* message as it was; the message it publishes is the given one with the
\* overrides applied (message_metadata merged over the existing metadata,
\* the override winning on a key of both; extensions, reference task ids,
\* taskId, contextId and messageId replaced), and with no override the
\* published params.message is the tree of the given message.
C37_GivenMessageNotModified ==
    (last.op = "send_a2a_request" /\ last.args.v.message # Null)
      => /\ last.message = last.args.v.message
         /\ Len(last.res.calls) = 1
         /\ last.res.calls[1].payload.v.params.v.message =
              A2AMessage_to_dict([t |-> "A2AMessage",
                                  v |-> Overridden(last.args.v.message.v, last.args.v)])
         /\ NoOverride(last.args.v)
              => last.res.calls[1].payload.v.params.v.message =
                   A2AMessage_to_dict(last.args.v.message)

C37_Witness ==
    /\ last.op = "send_a2a_request"
    /\ last.args.v.message = Rich
    /\ last.args.v.message_metadata = Map([note |-> Str("new"), trace |-> Str("t")])
    /\ last.args.v.task_id = Str("task-9")
    /\ last.args.v.message_id = Str("m-new")
    /\ last.message = Rich
    /\ last.res.calls[1].payload.v.params.v.message.v.metadata =
         Map([sender_id |-> Str("peer"), note |-> Str("new"), trace |-> Str("t")])
    /\ last.res.calls[1].payload.v.params.v.message.v.messageId = Str("m-new")

\* C36 (as claimed): the handlers invoked for an accepted message are the
\* handlers that were registered when its dispatch began: the handlers
\* invoked so far are among them, in their order, and the dispatch ends when
\* exactly they have run, whatever was appended while it was in flight.
C36_HandlersFixedAtDispatch ==
    Accepted => /\ Len(d.invoked) <= Len(d.hs0)
                /\ d.invoked = SubSeq(d.hs0, 1, Len(d.invoked))
                /\ d.pc = "done" => d.invoked = d.hs0

C39_ExchangeQuiesces == <>[](net = {})

====
